---- MODULE Spec2Model ----
(***************************************************************************)
(* HTFS VS Code extension (src/extension.js, second version, lines 252 on) *)
(* as a state machine.                                                     *)
(*                                                                         *)
(* JavaScript runs every handler to completion: a step of the model is one *)
(* macrotask together with the microtasks it schedules, i.e. the code from *)
(* one resumption of an async function up to its next suspension (an       *)
(* await of execPromise or of a user prompt).  The external tool `tagfs`   *)
(* is the environment: each invocation succeeds or fails as it pleases.    *)
(***************************************************************************)
EXTENDS Integers, Sequences, FiniteSets, TLC

\* ------------------------------------------------------------------ bounds
MaxInv == 4      \* invocations submitted to execPromise in one behaviour
MaxTasks == 2    \* async handlers suspended at the same time
MaxTimers == 2   \* timeout handles alive at the same time
Delay == 2       \* the debounce delay of 300 ms (src 1101), in ticks of 150 ms
MaxLen == 4      \* characters in a scanned document text
MaxLine == 3     \* characters in the line a completion is asked for

Files == {"./a", "./b"}           \* file identities (getRelativeFilePath results)
TagNames == {"x"}                 \* tag names the user may type or pick
NoFile == "-"
NoTag == "-"
TaskIds == 1..MaxTasks
Handles == 1..MaxTimers

\* An optional value: Null is JavaScript null / a missing Map entry.
Null == <<>>
Some(v) == <<v>>
Val(o) == o[1]

VARIABLES
    cachedTags,      \* src 286: null or the tag array of the last listing
    cachedFileTags,  \* src 288: Map identity -> tag array (here: backend version)
    execQueue,       \* src 287: tail of the promise chain (id of the last invocation, 0 = Promise.resolve())
    invs,            \* every execPromise call so far, in submission order
    tasks,           \* suspended async functions: kind, position, locals
    activeFile,      \* vscode.window.activeTextEditor's document identity
    registry,        \* backend: the tag registry
    fileVer,         \* backend: per identity, number of completed changes of its tag set
    obs,             \* what the last step showed or returned (events of that step only)
    timer,           \* src 466: the handle kept by the debounced listener (0 = null)
    timeouts,        \* the host's pending setTimeout calls: per handle, ticks left and argument
    setting,         \* the tagfs.path setting, a path as its sequence of segments (<<>>: unset or empty)
    tagfsExecutable, \* src 283: null or the last configured path seen
    workspace,       \* whether vscode.workspace.workspaceFolders has a folder (src 297-300)
    extensionInitialized, \* src 284
    registered,      \* how many times the features were registered (src 1195-1198)
    setPathCommand,  \* whether tagfs.setPath is registered (src 976-996)
    comp,            \* one call of provideCompletionItems (src 1009-1050): arguments, position, result
    scan,            \* the scan loop of updateTagDecorations (src 874-919): inputs, position, result
    hLastTags,       \* history: see Track
    hCleared,        \* history: see Track
    hQuiet,          \* history: see Track
    hOwed            \* history: see Track

vars == <<cachedTags, cachedFileTags, execQueue, invs, tasks, activeFile,
          registry, fileVer, obs, timer, timeouts, setting, tagfsExecutable, workspace,
          extensionInitialized, registered, setPathCommand,
          comp, scan,
          hLastTags, hCleared, hQuiet, hOwed>>

\* Paths are sequences of segments; the empty sequence is the empty string.
PathP == <<"p", "tagfs">>
PathQ == <<"q", "bin", "tagfs">>
Settings == {<<>>, PathP, PathQ}
\* CONFIG.DEFAULT_FALLBACK_DIR (src 263).
DEFAULT_FALLBACK_DIR == <<"linuxdev", "github", "HTFS">>
\* path.dirname of a path with a directory part.
dirname(p) == SubSeq(p, 1, Len(p) - 1)

\* STATUS_MESSAGES (src 268-273) and the count text of src 534.
NOT_CONFIGURED == <<"HTFS: Not Configured">>
NOT_INITIALIZED == <<"HTFS: Not Initialized">>
ERROR == <<"HTFS: Error">>
LOADING == <<"HTFS: Loading...">>
TagCountText(tags) == <<"HTFS: tags", Cardinality(tags)>>

\* ------------------------------------------------------------ state records
Idle == [kind |-> "idle", pc |-> "", f |-> NoFile, g |-> NoFile, t |-> NoTag,
         wait |-> 0, tags |-> Null, path |-> <<>>]

\* String.prototype.indexOf (src 885): the first offset of sub, or -1.
Occurs(str, sub) == {j \in 0..(Len(str) - Len(sub)) : SubSeq(str, j + 1, j + Len(sub)) = sub}
indexOf(str, sub) ==
    IF Occurs(str, sub) = {} THEN -1
    ELSE CHOOSE j \in Occurs(str, sub) : \A k \in Occurs(str, sub) : j <= k

\* File paths are sequences of characters.  The workspace folder's fsPath
\* (src 297-300), the fsPath of the file with identity f, and the
\* identity as the string the File-Tag Cache is keyed with.
WorkspaceFolder == <<"C", ":", "\\", "w">>
BaseName == [f \in Files |-> IF f = "./a" THEN "a" ELSE "b"]
fsPath == [f \in Files |-> WorkspaceFolder \o <<"\\", BaseName[f]>>]
Key == [f \in Files |-> <<".", "/", BaseName[f]>>]

\* getRelativeFilePath (src 305-309): the first occurrence of the
\* workspace folder is removed, every backslash becomes a slash, and a
\* dot is put in front.
getRelativeFilePath(filePath, workspaceFolder) ==
    LET j == indexOf(filePath, workspaceFolder)
        rel == IF j = -1 THEN filePath
               ELSE SubSeq(filePath, 1, j)
                        \o SubSeq(filePath, j + Len(workspaceFolder) + 1, Len(filePath))
    IN <<".">> \o [i \in 1..Len(rel) |-> IF rel[i] = "\\" THEN "/" ELSE rel[i]]

\* The file arguments of the command line given to execPromise: the
\* relative path the caller computed (src 452-453, 491, 507, with src 676,
\* 696, 865, 933, 1071), or the fsPath of the event (src 1146, 1165).
FileArgs(op, f, g) ==
    CASE op \in {"addresource", "tagresource", "untagresource", "getresourcetags"} ->
            <<getRelativeFilePath(fsPath[f], WorkspaceFolder)>>
      [] op = "rmresource" -> <<fsPath[f]>>
      [] op = "mvresource" -> <<fsPath[f], fsPath[g]>>
      [] OTHER -> <<>>

Cmd(op, f, g, t) == [op |-> op, f |-> f, g |-> g, t |-> t, paths |-> FileArgs(op, f, g)]

\* The part of the state a handler's code reads and writes.
St == [cachedTags |-> cachedTags, cachedFileTags |-> cachedFileTags,
       execQueue |-> execQueue, invs |-> invs, tasks |-> tasks,
       activeFile |-> activeFile, timer |-> timer, timeouts |-> timeouts,
       setting |-> setting, tagfsExecutable |-> tagfsExecutable, workspace |-> workspace,
       extensionInitialized |-> extensionInitialized, registered |-> registered,
       setPathCommand |-> setPathCommand,
       obs |-> {}]

Ev(ev, f, val) == [ev |-> ev, f |-> f, val |-> val]
Emit(s, e) == [s EXCEPT !.obs = @ \cup {e}]
\* showError / showInfo (src 326-335) called by task tid: the event keeps
\* the file and the position of the caller.
showError(s, tid) == Emit(s, Ev("showError", s.tasks[tid].f, Some(s.tasks[tid].pc)))
showInfo(s, tid) == Emit(s, Ev("showInfo", s.tasks[tid].f, Some(s.tasks[tid].pc)))

SetPc(s, tid, pc) == [s EXCEPT !.tasks[tid].pc = pc]
Finish(s, tid) == [s EXCEPT !.tasks[tid] = Idle]

\* ------------------------------------------------------- Command Gateway
\* State of the promise `result` of invocation k (src 363).
ResultState(iv) ==
    CASE iv.st = "ok" -> "resolved"
      [] iv.st = "fail" -> "rejected"
      [] OTHER -> "pending"

\* Mutant: `execQueue = result`, the rejection is not swallowed.
CatchMissing(rs) == rs

\* result.catch(() => {}) (src 395): a rejection of result is swallowed.
CatchNoop(rs) == IF rs = "rejected" THEN "resolved" ELSE rs

\* State of the chain promise an invocation was appended to: 0 is the
\* initial Promise.resolve() (src 287), k > 0 is result_k.catch(() => {}).
ChainState(q, k) == IF k = 0 THEN "resolved" ELSE CatchNoop(ResultState(q[k]))

\* Mutant: the new call is chained but execQueue is not advanced to it.
execPromiseForgetTail(s, tid, cmd) ==
    LET id == Len(s.invs) + 1 IN
    [s EXCEPT !.invs = Append(@, [cmd |-> cmd, st |-> "queued", prev |-> s.execQueue,
                                  owner |-> tid, ran |-> FALSE, dir |-> Null]),
              !.tasks[tid].wait = id]

\* execPromise (src 362-397), the synchronous part: chain the call on
\* execQueue, make the catch-wrapped result the new execQueue, and return
\* the result promise, which the caller awaits.
execPromise(s, tid, cmd) ==
    LET id == Len(s.invs) + 1 IN
    [s EXCEPT !.invs = Append(@, [cmd |-> cmd, st |-> "queued", prev |-> s.execQueue,
                                  owner |-> tid, ran |-> FALSE, dir |-> Null]),
              !.execQueue = id,
              !.tasks[tid].wait = id]

\* parseOutputLines (src 314-321) of a listing: the array of its lines.
parseOutputLines(stdout) == Some(stdout)

\* Mutant: `if (cachedTags && cachedTags.length)`.
TruthyNonEmpty(c) == c # Null /\ Val(c) # {}

\* `if (cachedTags)` (src 403): null is falsy, every array is truthy.
Truthy(c) == c # Null

\* ------------------------------------------------------------- the caches
\* fetchTags (src 402-407), cache hit: `if (cachedTags) return cachedTags`.
fetchTagsHit(s) == Emit(s, Ev("fetchTags.hit", NoFile, s.cachedTags))

\* fetchTags, cache miss: `await execPromise('tagfs lstags')` (src 404).
fetchTagsMiss(s, tid, pc) ==
    SetPc(execPromise(s, tid, Cmd("lstags", NoFile, NoFile, NoTag)), tid, pc)

\* fetchTags after the listing succeeded (src 405-406): store and return.
fetchTagsStore(s, stdout) ==
    Emit([s EXCEPT !.cachedTags = parseOutputLines(stdout)],
         Ev("fetchTags.fetched", NoFile, parseOutputLines(stdout)))

\* Mutant: a failed listing is cached as the empty list.
fetchTagsSettledOrEmpty(s, ok, stdout) ==
    IF ok THEN fetchTagsStore(s, stdout) ELSE [s EXCEPT !.cachedTags = Some({})]

\* fetchTags when its listing has settled: the rejection of the awaited
\* promise is thrown at src 404, before the assignment of src 405.
fetchTagsSettled(s, ok, stdout) == IF ok THEN fetchTagsStore(s, stdout) ELSE s

\* `cachedTags = null` after a successful creation (src 583, 725).
invalidateTags(s) == [s EXCEPT !.cachedTags = Null]

\* Mutant: an entry with an empty tag list counts as missing.
hasNonEmpty(m, f) == m[f] # Null /\ Val(m[f]) # 0

\* cachedFileTags.has(relativeFilePath) (src 504): an entry is present,
\* whatever its value.
has(m, f) == m[f] # Null

\* getFileTags (src 503-511), cache hit (src 504-506).
getFileTagsHit(s, f) == Emit(s, Ev("getFileTags.hit", f, s.cachedFileTags[f]))

\* getFileTags, cache miss: `await execPromise('tagfs getresourcetags f')` (src 507).
getFileTagsMiss(s, tid, f, pc) ==
    SetPc(execPromise(s, tid, Cmd("getresourcetags", f, NoFile, NoTag)), tid, pc)

\* getFileTags after the fetch succeeded (src 508-510): store and return.
getFileTagsStore(s, f, stdout) ==
    Emit([s EXCEPT !.cachedFileTags[f] = parseOutputLines(stdout)],
         Ev("getFileTags.fetched", f, parseOutputLines(stdout)))

\* getFileTags when its fetch has settled: the rejection is thrown at
\* src 507, before the set of src 509.
getFileTagsSettled(s, f, ok, stdout) == IF ok THEN getFileTagsStore(s, f, stdout) ELSE s

\* cachedFileTags.delete(f) (src 455, 493, 1134, 1152, 1171).
invalidateFile(s, f) == [s EXCEPT !.cachedFileTags[f] = Null]

\* editor.setDecorations at the end of updateTagDecorations: with the
\* occurrences found for the tag set `tags` (src 870, 919), or with none
\* in the catch (src 921), which is tags = Null.
setDecorations(s, f, tags) == Emit(s, Ev("setDecorations", f, tags))

\* Mutant: updateTagDecorations without its try / catch.
DecoratedOrThrow(s, f, ok, stdout) ==
    IF ok
    THEN setDecorations(getFileTagsStore(s, f, stdout), f, parseOutputLines(stdout))
    ELSE Emit(s, Ev("showError", f, Null))

\* updateTagDecorations once the fetch of its getFileTags has settled
\* (src 868-922).
Decorated(s, f, ok, stdout) ==
    IF ok
    THEN setDecorations(getFileTagsStore(s, f, stdout), f, parseOutputLines(stdout))
    ELSE setDecorations(s, f, Null)

\* updateTagDecorations when getFileTags is answered from the cache.
DecoratedFromCache(s, f) == setDecorations(getFileTagsHit(s, f), f, s.cachedFileTags[f])

\* The frame of a handler of kind "rescan" for document d.
RescanFrame(s, tid, d) == [s EXCEPT !.tasks[tid] = [Idle EXCEPT !.kind = "rescan", !.f = d]]

\* ---------------------------------------------------------- updateTagCount
\* `statusBarItem.text = text` (src 523, 528, 534, 536).
setStatus(s, text) == Emit(s, Ev("statusBarItem.text", NoFile, text))

\* updateTagCount returns before fetchTags (src 520-530): the setting is
\* empty, or there is no workspace folder.
CountSkips(s) == s.setting = <<>> \/ ~s.workspace
CountSkipped(s) ==
    setStatus(s, IF s.setting = <<>> THEN NOT_CONFIGURED ELSE NOT_INITIALIZED)

\* Mutant: the catch of updateTagCount reports the failure.
CountedOrShown(s, tid, ok) ==
    IF ok THEN setStatus(s, TagCountText(Val(s.cachedTags)))
    ELSE showError(setStatus(s, ERROR), tid)

\* updateTagCount after fetchTags returned or threw (src 532-537); on
\* return the tags are those now in cachedTags.
Counted(s, tid, ok) ==
    IF ok THEN setStatus(s, TagCountText(Val(s.cachedTags)))
    ELSE setStatus(s, ERROR)

\* ------------------------------------------------- tag / untag and refresh
\* updateTagCount at the end of tagfs.applyTagFromCompletion (src 1074).
FinalCount(s, tid) ==
    IF CountSkips(s) THEN Finish(CountSkipped(s), tid)
    ELSE IF Truthy(s.cachedTags) THEN Finish(Counted(fetchTagsHit(s), tid, TRUE), tid)
    ELSE fetchTagsMiss(s, tid, "final_lstags")

\* Mutant: a failed tagFileWithTag ends its caller, which does not go on
\* to updateTagCount.
AfterTagOpStops(s, tid) == Finish(s, tid)

\* tagFileWithTag / untagFileWithTag have returned to their caller:
\* tagfs.applyTagFromCompletion goes on to updateTagCount (src 1073-1074),
\* handleAddTagToFile and handleRemoveTagFromFile return (src 732, 755).
AfterTagOp(s, tid) ==
    IF s.tasks[tid].kind = "applyTag" THEN FinalCount(s, tid) ELSE Finish(s, tid)

\* Mutant: _refreshAfterTagChange without the rescan of the active editor.
RefreshNoDeco(s, tid) == AfterTagOp(s, tid)

\* _refreshAfterTagChange, second half (src 480-483): rescan when the file
\* is the active editor's document; updateTagDecorations (src 859-923)
\* reads the file's tags through getFileTags.
RefreshDeco(s, tid) ==
    LET f == s.tasks[tid].f IN
    IF s.activeFile = f /\ s.workspace
    THEN IF has(s.cachedFileTags, f)
         THEN AfterTagOp(DecoratedFromCache(s, f), tid)
         ELSE getFileTagsMiss(s, tid, f, "refresh_grt")
    ELSE AfterTagOp(s, tid)

\* _refreshAfterTagChange, first half (src 474-479): updateTagCount.
Refresh(s, tid) ==
    LET s1 == Emit(s, Ev("refresh", s.tasks[tid].f, Null)) IN
    IF CountSkips(s1) THEN RefreshDeco(CountSkipped(s1), tid)
    ELSE IF Truthy(s1.cachedTags) THEN RefreshDeco(Counted(fetchTagsHit(s1), tid, TRUE), tid)
    ELSE fetchTagsMiss(s1, tid, "refresh_lstags")

\* tagFileWithTag (src 450-460): the first call, addresource (src 452).
TagFileStart(s, tid) ==
    SetPc(execPromise(s, tid, Cmd("addresource", s.tasks[tid].f, NoFile, NoTag)),
          tid, "addresource")

\* Mutant: tagresource is submitted whatever became of addresource.
TagFileRegisterIgnored(s, tid, ok) ==
    SetPc(execPromise(IF ok THEN s ELSE showError(s, tid), tid,
                      Cmd("tagresource", s.tasks[tid].f, NoFile, s.tasks[tid].t)),
          tid, "tagresource")

\* tagFileWithTag after addresource settled (src 452-453, 457-459).
TagFileAfterRegister(s, tid, ok) ==
    IF ok
    THEN SetPc(execPromise(s, tid, Cmd("tagresource", s.tasks[tid].f, NoFile, s.tasks[tid].t)),
               tid, "tagresource")
    ELSE AfterTagOp(showError(s, tid), tid)

\* Mutant: the cache entry is not invalidated on success.
TagFileKeepEntry(s, tid, ok) ==
    IF ok
    THEN Refresh(showInfo(s, tid), tid)
    ELSE AfterTagOp(showError(s, tid), tid)

\* Mutant: the cache entry is invalidated in a `finally`, also on failure.
TagFileAlwaysInvalidate(s, tid, ok) ==
    IF ok
    THEN Refresh(invalidateFile(showInfo(s, tid), s.tasks[tid].f), tid)
    ELSE AfterTagOp(invalidateFile(showError(s, tid), s.tasks[tid].f), tid)

\* Mutant: a successful tagFileWithTag empties both caches.
TagFileClearAll(s, tid, ok) ==
    IF ok
    THEN Refresh([showInfo(s, tid) EXCEPT !.cachedFileTags = [g \in Files |-> Null],
                                          !.cachedTags = Null], tid)
    ELSE AfterTagOp(showError(s, tid), tid)

\* tagFileWithTag after tagresource settled (src 453-459).
TagFileAfterAssociate(s, tid, ok) ==
    IF ok
    THEN Refresh(invalidateFile(showInfo(s, tid), s.tasks[tid].f), tid)
    ELSE AfterTagOp(showError(s, tid), tid)

\* untagFileWithTag (src 489-498): the call (src 491).
UntagFileStart(s, tid) ==
    SetPc(execPromise(s, tid, Cmd("untagresource", s.tasks[tid].f, NoFile, s.tasks[tid].t)),
          tid, "untagresource")

\* Mutant: the cache entry survives a successful untag.
UntagFileKeepEntry(s, tid, ok) ==
    IF ok
    THEN Refresh(showInfo(s, tid), tid)
    ELSE AfterTagOp(showError(s, tid), tid)

\* untagFileWithTag after untagresource settled (src 491-497).
UntagFileAfter(s, tid, ok) ==
    IF ok
    THEN Refresh(invalidateFile(showInfo(s, tid), s.tasks[tid].f), tid)
    ELSE AfterTagOp(showError(s, tid), tid)

\* --------------------------------------------------- commands and events
\* updateTagDecorations(editor) called by onDidChangeActiveTextEditor
\* (src 1090, 859-923); `if (!editor) return`, `if (!workspaceFolder) return`.
EditorDeco(s, tid) ==
    LET f == s.tasks[tid].f IN
    IF f = NoFile \/ ~s.workspace THEN Finish(s, tid)
    ELSE IF has(s.cachedFileTags, f)
         THEN Finish(DecoratedFromCache(s, f), tid)
         ELSE getFileTagsMiss(s, tid, f, "ec_grt")

\* onDidChangeActiveTextEditor (src 1088-1091): updateTagCount first.
EditorChangeStart(s, tid) ==
    IF CountSkips(s) THEN EditorDeco(CountSkipped(s), tid)
    ELSE IF Truthy(s.cachedTags) THEN EditorDeco(Counted(fetchTagsHit(s), tid, TRUE), tid)
    ELSE fetchTagsMiss(s, tid, "ec_lstags")

\* tagfsListTags (src 561-570).
ListTagsStart(s, tid) ==
    IF Truthy(s.cachedTags) THEN Finish(fetchTagsHit(s), tid)
    ELSE fetchTagsMiss(s, tid, "list_lstags")

\* tagfsAddTag (src 575-587): the creation call (src 581).
AddTagStart(s, tid) ==
    SetPc(execPromise(s, tid, Cmd("addtags", NoFile, NoFile, s.tasks[tid].t)), tid, "addtags")

\* Mutant: the Tag Cache is cleared whatever became of addtags.
AddTagAlwaysInvalidate(s, tid, ok) ==
    Finish(invalidateTags(IF ok THEN showInfo(s, tid) ELSE showError(s, tid)), tid)

\* tagfsAddTag after addtags settled (src 582-586).
AddTagAfter(s, tid, ok) ==
    IF ok THEN Finish(invalidateTags(showInfo(s, tid)), tid)
    ELSE Finish(showError(s, tid), tid)

\* tagfsGetTagsForFile (src 669-684).
ShowFileTagsStart(s, tid) ==
    LET f == s.tasks[tid].f IN
    IF has(s.cachedFileTags, f) THEN Finish(getFileTagsHit(s, f), tid)
    ELSE getFileTagsMiss(s, tid, f, "show_grt")

\* TagFsCodeLensProvider.provideCodeLenses (src 929-951).
CodeLensStart(s, tid) ==
    LET f == s.tasks[tid].f IN
    IF has(s.cachedFileTags, f) THEN Finish(getFileTagsHit(s, f), tid)
    ELSE getFileTagsMiss(s, tid, f, "lens_grt")

\* handleAddTagToFile (src 714-736) up to the quick pick (src 716-717).
EditAddPick(s, tid, tags) ==
    [s EXCEPT !.tasks[tid].tags = tags, !.tasks[tid].pc = "pick", !.tasks[tid].wait = 0]

EditAddStart(s, tid) ==
    IF Truthy(s.cachedTags) THEN EditAddPick(fetchTagsHit(s), tid, s.cachedTags)
    ELSE fetchTagsMiss(s, tid, "ea_lstags")

\* showQuickPickWithCreate (src 416-441) once the user has answered:
\* `t` is the label picked, or the name typed after 'Create new tag...'
\* (create = TRUE), which is created when the list does not include it.
QuickPickAnswered(s, tid, t, create) ==
    LET s1 == [s EXCEPT !.tasks[tid].t = t] IN
    IF create /\ t \notin Val(s.tasks[tid].tags)
    THEN SetPc(execPromise(s1, tid, Cmd("addtags", NoFile, NoFile, t)), tid, "qp_addtags")
    ELSE TagFileStart(s1, tid)      \* src 721: tags.includes(tagName), src 732

\* showQuickPickWithCreate after its addtags settled (src 431-437), back
\* in handleAddTagToFile (src 721-723): the tag is not in `tags`, so it is
\* created again.
QuickPickCreated(s, tid, ok) ==
    LET s1 == IF ok THEN showInfo(s, tid) ELSE showError(s, tid) IN
    SetPc(execPromise(s1, tid, Cmd("addtags", NoFile, NoFile, s.tasks[tid].t)), tid, "ea_addtags")

\* handleAddTagToFile after its own addtags settled (src 723-732).
EditAddCreated(s, tid, ok) ==
    IF ok THEN TagFileStart(invalidateTags(showInfo(s, tid)), tid)
    ELSE Finish(showError(s, tid), tid)

\* handleRemoveTagFromFile (src 741-759) up to the quick pick.
EditRemoveStart(s, tid) ==
    LET f == s.tasks[tid].f IN
    IF has(s.cachedFileTags, f)
    THEN [getFileTagsHit(s, f) EXCEPT !.tasks[tid].pc = "pickRemove", !.tasks[tid].wait = 0]
    ELSE getFileTagsMiss(s, tid, f, "er_grt")

\* tagfsSearchByTag (src 592-623) with tag expression t: the call (src 608).
SearchStart(s, tid) ==
    SetPc(execPromise(s, tid, Cmd("lsresources", NoFile, NoFile, s.tasks[tid].t)),
          tid, "lsresources")

\* tagfsSearchByTag after lsresources settled (src 612-622): the quick
\* pick of the files found, or the error message.
SearchAfter(s, tid, ok) ==
    IF ok THEN [s EXCEPT !.tasks[tid].pc = "pickFile", !.tasks[tid].wait = 0]
    ELSE Finish(showError(s, tid), tid)

\* updateTagDatabaseOnRename (src 1162-1176): the backend call (src 1165).
RenameStart(s, tid) ==
    SetPc(execPromise(s, tid, Cmd("mvresource", s.tasks[tid].f, s.tasks[tid].g, NoTag)),
          tid, "mvresource")

\* updateTagDatabaseOnDelete (src 1143-1157): the backend call (src 1146).
DeleteStart(s, tid) ==
    SetPc(execPromise(s, tid, Cmd("rmresource", s.tasks[tid].f, NoFile, NoTag)),
          tid, "rmresource")

\* updateTagDatabaseOnRename / OnDelete after the call settled
\* (src 1166-1175, 1147-1156): evict the old / deleted identity on success.
MoveOrRemoveAfter(s, tid, ok) ==
    IF ok THEN Finish(invalidateFile(showInfo(s, tid), s.tasks[tid].f), tid)
    ELSE Finish(showError(s, tid), tid)

\* clearTimeout(h): a pending timeout is dropped; null and the handle of
\* a timeout that has fired are ignored.
clearTimeout(s, h) == IF h = 0 THEN s ELSE [s EXCEPT !.timeouts[h] = Null]

\* setTimeout(() => fn(e), 300) for a change event of document d: a new
\* handle, here the least one with no pending timeout.
NewHandle(s) == CHOOSE h \in Handles : s.timeouts[h] = Null /\ \A g \in Handles : g < h => s.timeouts[g] # Null
setTimeout(s, d) ==
    LET h == NewHandle(s) IN
    [s EXCEPT !.timeouts[h] = Some([rem |-> Delay, doc |-> d]), !.timer = h]

\* Mutant: a debounce that does not clear the pending timeout.
debounceStacked(s, d) == setTimeout(s, d)

\* The function returned by debounce (src 467-470), called with the
\* change event of document d.
debounce(s, d) == setTimeout(clearTimeout(s, s.timer), d)

\* The debounced callback (src 1096-1100) run with the event of document
\* d: updateTagDecorations(editor), not awaited, when d is the active
\* editor's document.
RescanStart(s, tid, d) ==
    IF s.activeFile # NoFile /\ d = s.activeFile /\ s.workspace
    THEN LET s1 == Emit(RescanFrame(s, tid, d), Ev("rescan", d, Null)) IN
         IF has(s1.cachedFileTags, d)
         THEN Finish(DecoratedFromCache(s1, d), tid)
         ELSE getFileTagsMiss(s1, tid, d, "rescan_grt")
    ELSE s

\* The continuation of the async function that awaited an invocation,
\* run when the invocation's promise settles.
Resume(s, tid, ok, stdout) ==
    LET pc == s.tasks[tid].pc
        f == s.tasks[tid].f
        tg == fetchTagsSettled(s, ok, stdout)
        ft == getFileTagsSettled(s, f, ok, stdout)
    IN
    CASE pc = "addresource" -> TagFileAfterRegister(s, tid, ok)
      [] pc = "tagresource" -> TagFileAfterAssociate(s, tid, ok)
      [] pc = "untagresource" -> UntagFileAfter(s, tid, ok)
      [] pc = "refresh_lstags" -> RefreshDeco(Counted(tg, tid, ok), tid)   \* src 476-479
      [] pc = "refresh_grt" -> AfterTagOp(Decorated(s, f, ok, stdout), tid)   \* src 482
      [] pc = "final_lstags" -> Finish(Counted(tg, tid, ok), tid)      \* src 532-537
      [] pc = "ec_lstags" -> EditorDeco(Counted(tg, tid, ok), tid)     \* src 1089-1090
      [] pc = "ec_grt" -> Finish(Decorated(s, f, ok, stdout), tid)     \* src 1090
      [] pc = "rescan_grt" -> Finish(Decorated(s, f, ok, stdout), tid) \* src 1099
      [] pc = "list_lstags" -> Finish(IF ok THEN tg ELSE showError(tg, tid), tid)  \* src 565-569
      [] pc = "show_grt" -> Finish(IF ok THEN ft ELSE showError(ft, tid), tid)     \* src 679-683
      [] pc = "lens_grt" -> Finish(ft, tid)                            \* src 936-950
      [] pc = "addtags" -> AddTagAfter(s, tid, ok)
      [] pc = "ea_lstags" ->                                           \* src 716, 733-735
            IF ok THEN EditAddPick(tg, tid, tg.cachedTags) ELSE Finish(showError(tg, tid), tid)
      [] pc = "qp_addtags" -> QuickPickCreated(s, tid, ok)
      [] pc = "ea_addtags" -> EditAddCreated(s, tid, ok)
      [] pc = "er_grt" ->                                              \* src 743, 756-758
            IF ok THEN [ft EXCEPT !.tasks[tid].pc = "pickRemove", !.tasks[tid].wait = 0]
            ELSE Finish(showError(ft, tid), tid)
      [] pc = "mvresource" -> MoveOrRemoveAfter(s, tid, ok)
      [] pc = "rmresource" -> MoveOrRemoveAfter(s, tid, ok)
      [] pc = "lsresources" -> SearchAfter(s, tid, ok)

\* ----------------------------------------- the scan of updateTagDecorations
\* A text is a sequence of characters; offsets count from 0 as in the code.
Chars == {"b", ".", " ", "\n", "\r"}
TagChars == {"b", "."}
\* The characters escapeRegExp looks for (src 853, the bracket expression).
Special == {".", "*", "+", "?", "^", "$", "{", "}", "(", ")", "|", "[", "\\"}
\* The characters of the class [ \n\t] in the pattern of src 880.
Blank == {" ", "\n", "\t"}

\* escapeRegExp (src 852-854): string.replace(/[.*+?^${}()|[\\]\\]/g, '\\$&').
\* The bracket expression ends at its first `]`, so the pattern is one
\* character of Special followed by a backslash and `]`; each match is
\* replaced by a backslash and itself.
RECURSIVE escapeFrom(_, _)
escapeFrom(str, i) ==
    IF i > Len(str) THEN <<>>
    ELSE IF /\ str[i] \in Special /\ i + 2 <= Len(str)
            /\ str[i + 1] = "\\" /\ str[i + 2] = "]"
         THEN <<"\\", str[i], "\\", "]">> \o escapeFrom(str, i + 3)
         ELSE <<str[i]>> \o escapeFrom(str, i + 1)
escapeRegExp(str) == escapeFrom(str, 1)

\* new RegExp(...) of the escaped tag (src 880-881), the part between the
\* two groups: `\c` is the character c, `.` is any character but a line
\* terminator, every other character of TagChars is itself.
RECURSIVE atomsFrom(_, _)
atomsFrom(src, i) ==
    IF i > Len(src) THEN <<>>
    ELSE IF src[i] = "\\" /\ i < Len(src)
         THEN <<[any |-> FALSE, ch |-> src[i + 1]]>> \o atomsFrom(src, i + 2)
         ELSE <<[any |-> src[i] = ".", ch |-> src[i]]>> \o atomsFrom(src, i + 1)
Atoms(src) == atomsFrom(src, 1)
AtomMatches(a, c) == IF a.any THEN c \notin {"\n", "\r"} ELSE c = a.ch

\* The body of the pattern matches the text at offset p.
BodyAt(text, atoms, p) ==
    /\ p + Len(atoms) <= Len(text)
    /\ \A k \in 1..Len(atoms) : AtomMatches(atoms[k], text[p + k])

\* (?:$|\r?[ \n\t]) at offset q: the offset after it, or -1.
SuffixEnd(text, q) ==
    IF q = Len(text) THEN q
    ELSE IF text[q + 1] = "\r" /\ q + 1 < Len(text) /\ text[q + 2] \in Blank THEN q + 2
    ELSE IF text[q + 1] \in Blank THEN q + 1
    ELSE -1

\* The whole pattern at offset p: (?:^|[ \n\t]) tries the start of the
\* text first, then one blank.  The offset after the match, or -1.
MatchEnd(text, atoms, p) ==
    IF p = 0 /\ BodyAt(text, atoms, 0) /\ SuffixEnd(text, Len(atoms)) # -1
    THEN SuffixEnd(text, Len(atoms))
    ELSE IF /\ p < Len(text) /\ text[p + 1] \in Blank /\ BodyAt(text, atoms, p + 1)
         THEN SuffixEnd(text, p + 1 + Len(atoms))
         ELSE -1

\* re.exec(docText) of a global regular expression (src 883): the first
\* match at or after lastIndex, or null.
Matches(text, atoms, from) == {p \in from..Len(text) : MatchEnd(text, atoms, p) # -1}
exec(text, atoms, from) ==
    IF Matches(text, atoms, from) = {} THEN Null
    ELSE LET p == CHOOSE q \in Matches(text, atoms, from) :
                      \A r \in Matches(text, atoms, from) : q <= r
         IN Some([index |-> p, end |-> MatchEnd(text, atoms, p)])

\* The decoration pushed for a match (src 884-915): its offsets and tag.
Decoration(text, tag, m) ==
    LET startOffset == m.index + indexOf(SubSeq(text, m.index + 1, m.end), tag) IN
    [start |-> startOffset, end |-> startOffset + Len(tag), tag |-> tag]

\* Inputs of the scan: every text and every list of tags up to the bounds,
\* and the example text of the scanner's description.
RECURSIVE SeqsUpTo(_, _)
SeqsUpTo(S, n) ==
    IF n = 0 THEN {<<>>}
    ELSE SeqsUpTo(S, n - 1) \cup {Append(q, c) : q \in {r \in SeqsUpTo(S, n - 1) : Len(r) = n - 1}, c \in S}
Texts == SeqsUpTo(Chars, MaxLen)
Tags == SeqsUpTo(TagChars, 2) \ {<<>>}
TagLists == {<<>>} \cup {<<t>> : t \in Tags} \cup {<<t, u>> : t \in {<<"b">>}, u \in Tags \ {<<"b">>}}
ExampleText == <<"f", "o", "o", " ", "b", "a", "r", " ", "f", "o", "o", "b", "a", "r", " ", "b", "a", "r">>
ExampleTag == <<"b", "a", "r">>
ScanInputs == (Texts \X TagLists) \cup {<<ExampleText, <<ExampleTag>>>>}

NoScan == [text |-> <<>>, tags |-> <<>>, i |-> 1, lastIndex |-> 0,
           decorations |-> <<>>, phase |-> "idle"]

\* ------------------------------------------------- provideCompletionItems
COMPLETION_TRIGGER == <<"#", "#">>          \* src 276
LineChars == {"#", "b"}
Lines == SeqsUpTo(LineChars, MaxLine)
TagX == <<"x">>
TagY == <<"y", "b">>
\* What `await fetchTags(workspaceFolder)` does (src 1021): it throws
\* (Null) or returns the tag array.
FetchOutcomes ==
    {Null} \cup {Some(l) : l \in {<<>>, <<TagX>>, <<TagY>>, <<TagX, TagY>>, <<TagY, TagX>>}}

\* String.prototype.substring(from, to) and endsWith(suffix).
substring(str, from, to) == SubSeq(str, from + 1, to)
\* Mutant: the last character of the suffix is looked for alone.
endsWithLast(str, suffix) == str # <<>> /\ str[Len(str)] = suffix[Len(suffix)]
endsWith(str, suffix) ==
    /\ Len(str) >= Len(suffix)
    /\ SubSeq(str, Len(str) - Len(suffix) + 1, Len(str)) = suffix

\* Mutant: the range is empty, at the cursor.
RangeAtCursor(character) == [start |-> character, end |-> character]
\* `new vscode.Range(position.translate(0, -COMPLETION_TRIGGER.length),
\* position)` on the line of the position (src 1027-1028).
TriggerRange(character) ==
    [start |-> character - Len(COMPLETION_TRIGGER), end |-> character]

\* The CompletionItem of a tag (src 1030-1041).
TagItem(tag, range) ==
    [label |-> tag, insertText |-> tag, filterText |-> COMPLETION_TRIGGER \o tag,
     range |-> range,
     command |-> Some([command |-> "tagfs.applyTagFromCompletion", arguments |-> <<tag>>])]
\* The placeholder item (src 1044-1046).
Placeholder(range) ==
    [label |-> <<"(no tags found)">>, insertText |-> COMPLETION_TRIGGER, filterText |-> Null,
     range |-> range, command |-> Null]

\* Mutant: without tags the list of items is returned as it is.
ItemsAsMapped(tags, range) == [i \in 1..Len(tags) |-> TagItem(tags[i], range)]
\* tags.map(...) and the placeholder for an empty result (src 1030-1050).
Items(tags, range) ==
    LET items == [i \in 1..Len(tags) |-> TagItem(tags[i], range)] IN
    IF Len(items) = 0 THEN <<Placeholder(range)>> ELSE items

\* The editor accepts a suggestion: the text of the range is replaced
\* by the item's insertText.
Accept(line, item) ==
    SubSeq(line, 1, item.range.start) \o item.insertText
        \o SubSeq(line, item.range.end + 1, Len(line))

NoComp == [line |-> <<>>, character |-> 0, fetch |-> Null, phase |-> "idle",
           called |-> FALSE, result |-> Null]

\* ----------------------------------------------------------------- actions
InitModule ==
    /\ cachedTags = Null                       \* src 286
    /\ cachedFileTags = [f \in Files |-> Null] \* src 288
    /\ execQueue = 0                           \* src 287
    /\ invs = <<>>
    /\ tasks = [t \in TaskIds |-> Idle]
    /\ activeFile = "./a"
    /\ registry = {}
    /\ fileVer = [f \in Files |-> 0]
    /\ obs = {}
    /\ timer = 0                               \* src 466
    /\ timeouts = [h \in Handles |-> Null]
    /\ hLastTags = Null
    /\ hCleared = [f \in Files |-> "no"]
    /\ hQuiet = Delay
    /\ hOwed = NoFile

\* The extension activated with the setting configured: tryInitFeatures
\* has registered the features (src 1191-1198).
InitGlobals ==
    /\ InitModule
    /\ setting = PathP
    /\ tagfsExecutable = Some(PathP)
    /\ extensionInitialized = TRUE
    /\ registered = 1
    /\ setPathCommand = TRUE

\* The module is loaded and activate has not been called (src 283-288),
\* whatever the setting is.
InitActivation ==
    /\ InitModule
    /\ setting \in Settings /\ workspace \in BOOLEAN
    /\ tagfsExecutable = Null                  \* src 283
    /\ extensionInitialized = FALSE            \* src 284
    /\ registered = 0
    /\ setPathCommand = FALSE
    /\ scan = NoScan /\ comp = NoComp

\* The extension in a window with a workspace folder.
InitProgram == InitGlobals /\ workspace = TRUE

Init == InitProgram /\ scan = NoScan /\ comp = NoComp

\* The extension in a window with or without a workspace folder.
InitStatus == InitGlobals /\ workspace \in BOOLEAN /\ scan = NoScan /\ comp = NoComp

\* VS Code calls provideCompletionItems(document, position): the line
\* of the position, the position's character, and what fetchTags will
\* do if it is called.
InitComplete ==
    /\ InitGlobals /\ workspace \in BOOLEAN /\ scan = NoScan
    /\ \E line \in Lines, o \in FetchOutcomes :
          \E c \in 0..Len(line) :
              comp = [NoComp EXCEPT !.line = line, !.character = c, !.fetch = o,
                                    !.phase = "called"]

\* updateTagDecorations has got the tags of the document (src 868) and
\* is about to scan its text.
InitScan ==
    /\ InitProgram /\ comp = NoComp
    /\ \E in \in ScanInputs :
          scan = [NoScan EXCEPT !.text = in[1], !.tags = in[2], !.phase = "scan"]

HasFree == \E t \in TaskIds : tasks[t] = Idle
FreeSlot == CHOOSE t \in TaskIds : tasks[t] = Idle /\ \A u \in TaskIds : u < t => tasks[u] # Idle

\* A handler is invoked: its frame, before its first statement.
Begin(tid, kind, f, g, t) ==
    [St EXCEPT !.tasks[tid] = [Idle EXCEPT !.kind = kind, !.f = f, !.g = g, !.t = t]]

\* History, for stating the claims.  hLastTags: what the last fetchTags
\* call that returned has returned, forgotten when a tag creation
\* completes.  hCleared[f]: "cleared" once tagFileWithTag(f, _) has
\* succeeded with no fetch of f pending, "closed" once the document f has
\* been closed with no fetch of f pending, "closedBusy" once it has been
\* closed with a fetch of f pending, "refetched" once a getresourcetags f
\* has been submitted after that (after "closedBusy": once getFileTags(f)
\* has been called again, hit or miss).  hQuiet: the ticks
\* since the last document-change event, up to Delay.  hOwed: the
\* document that was edited while it was the active editor's and has not
\* been rescanned by the debounced listener since (NoFile: none).
IsEdit(e) == e.ev = "textChange"
IsFetchReturn(e) == e.ev \in {"fetchTags.hit", "fetchTags.fetched"}
Pending(q, f) ==
    \E k \in 1..Len(q) : q[k].st \in {"queued", "running"}
                         /\ q[k].cmd.op = "getresourcetags" /\ q[k].cmd.f = f
Submitted(s, f) ==
    \E k \in (Len(invs) + 1)..Len(s.invs) :
        s.invs[k].cmd.op = "getresourcetags" /\ s.invs[k].cmd.f = f
Track(s, done) ==
    /\ hLastTags' =
          IF done.op = "addtags" THEN Null
          ELSE IF \E e \in s.obs : IsFetchReturn(e)
               THEN (CHOOSE e \in s.obs : IsFetchReturn(e)).val
               ELSE hLastTags
    /\ hCleared' = [f \in Files |->
          IF done.op = "tagresource" /\ done.f = f /\ ~Pending(invs, f)
          THEN IF Submitted(s, f) THEN "refetched" ELSE "cleared"
          ELSE IF done.op = "close" /\ done.f = f
               THEN IF Pending(invs, f) THEN "closedBusy" ELSE "closed"
          ELSE IF hCleared[f] \in {"cleared", "closed", "closedBusy"} /\ Submitted(s, f)
               THEN "refetched"
          ELSE IF hCleared[f] = "closedBusy"
                  /\ \E e \in s.obs : e.ev = "getFileTags.hit" /\ e.f = f
               THEN "refetched"
          ELSE hCleared[f]]
    /\ hQuiet' =
          IF \E e \in s.obs : IsEdit(e) THEN 0
          ELSE IF done.op = "tick" /\ hQuiet < Delay THEN hQuiet + 1
          ELSE hQuiet
    /\ hOwed' =
          IF \E e \in s.obs : IsEdit(e) /\ e.f = s.activeFile
          THEN s.activeFile
          ELSE IF s.activeFile # activeFile THEN NoFile
          ELSE IF \E e \in s.obs : e.ev = "rescan" /\ e.f = hOwed THEN NoFile
          ELSE hOwed

NoCmd == Cmd("none", NoFile, NoFile, NoTag)

\* The step's effect on the program's state; `done` is the command whose
\* successful run the step completes, or the close event it handles
\* (NoCmd when there is none).
Apply(s, done) ==
    /\ Len(s.invs) <= MaxInv
    /\ Track(s, done)
    /\ cachedTags' = s.cachedTags
    /\ cachedFileTags' = s.cachedFileTags
    /\ execQueue' = s.execQueue
    /\ invs' = s.invs
    /\ tasks' = s.tasks
    /\ activeFile' = s.activeFile
    /\ timer' = s.timer
    /\ timeouts' = s.timeouts
    /\ setting' = s.setting
    /\ tagfsExecutable' = s.tagfsExecutable
    /\ workspace' = s.workspace
    /\ extensionInitialized' = s.extensionInitialized
    /\ registered' = s.registered
    /\ setPathCommand' = s.setPathCommand
    /\ obs' = s.obs
    /\ scan' = scan
    /\ comp' = comp

\* The handler ran up to its first suspension, or to its end.
Commit(s, tid) ==
    /\ Apply(s, NoCmd)
    /\ UNCHANGED <<registry, fileVer>>

\* vscode.window.onDidChangeActiveTextEditor fires with editor e (src 1088).
EditorChange ==
    \E e \in Files \cup {NoFile} :
        /\ e # activeFile /\ HasFree
        /\ LET tid == FreeSlot IN
           Commit(EditorChangeStart([Begin(tid, "editorChange", e, NoFile, NoTag)
                                       EXCEPT !.activeFile = e], tid), tid)

\* Command tagfs.listtags (src 964).
ListTags ==
    /\ HasFree
    /\ LET tid == FreeSlot IN
       Commit(ListTagsStart(Begin(tid, "listTags", NoFile, NoFile, NoTag), tid), tid)

\* Command tagfs.addtag (src 965); the user types tag name t (src 578).
AddTag ==
    \E t \in TagNames :
        /\ HasFree
        /\ LET tid == FreeSlot IN
           Commit(AddTagStart(Begin(tid, "addTag", NoFile, NoFile, t), tid), tid)

\* Command tagfs.applyTagFromCompletion (src 1064-1078) with tag t; it
\* returns at once without an editor or a workspace folder.
ApplyTag ==
    \E t \in TagNames :
        /\ HasFree /\ activeFile # NoFile /\ workspace
        /\ LET tid == FreeSlot IN
           Commit(TagFileStart(Begin(tid, "applyTag", activeFile, NoFile, t), tid), tid)

\* Command tagfs.showfiletags (src 969).
ShowFileTags ==
    /\ HasFree /\ activeFile # NoFile
    /\ LET tid == FreeSlot IN
       Commit(ShowFileTagsStart(Begin(tid, "showFileTags", activeFile, NoFile, NoTag), tid), tid)

\* VS Code asks the CodeLens provider for the lenses of document f (src 1106).
CodeLens ==
    \E f \in Files :
        /\ HasFree
        /\ LET tid == FreeSlot IN
           Commit(CodeLensStart(Begin(tid, "codeLens", f, NoFile, NoTag), tid), tid)

\* Command tagfs.editfiletags, 'Add Tag' (src 689-705).
EditAdd ==
    /\ HasFree /\ activeFile # NoFile
    /\ LET tid == FreeSlot IN
       Commit(EditAddStart(Begin(tid, "editAdd", activeFile, NoFile, NoTag), tid), tid)

\* Command tagfs.editfiletags, 'Remove Tag' (src 689-707).
EditRemove ==
    /\ HasFree /\ activeFile # NoFile
    /\ LET tid == FreeSlot IN
       Commit(EditRemoveStart(Begin(tid, "editRemove", activeFile, NoFile, NoTag), tid), tid)

\* The user answers the quick pick of handleAddTagToFile (src 717, 421-426).
PickAdd ==
    \E tid \in TaskIds :
        /\ tasks[tid].pc = "pick"
        /\ \/ Commit(Finish(St, tid), tid)                       \* dismissed (src 422, 426, 718)
           \/ \E t \in Val(tasks[tid].tags) :                     \* an existing tag (src 440)
                 Commit(QuickPickAnswered(St, tid, t, FALSE), tid)
           \/ \E t \in TagNames :                                 \* 'Create new tag...' (src 424)
                 Commit(QuickPickAnswered(St, tid, t, TRUE), tid)

\* The user answers the quick pick of handleRemoveTagFromFile (src 744-755);
\* the file's tag names are not modelled, so an empty list (src 744) is one
\* of the answers.
PickRemove ==
    \E tid \in TaskIds :
        /\ tasks[tid].pc = "pickRemove"
        /\ \/ Commit(Finish(St, tid), tid)                       \* dismissed (src 753)
           \/ Commit(Finish(showInfo(St, tid), tid), tid)             \* no tags (src 744-747)
           \/ \E t \in TagNames :
                 Commit(UntagFileStart([St EXCEPT !.tasks[tid].t = t], tid), tid)

\* Command tagfs.searchbytag (src 592-610); the user types the tag
\* expression t.
Search ==
    \E t \in TagNames :
        /\ HasFree /\ workspace
        /\ LET tid == FreeSlot IN
           Commit(SearchStart(Begin(tid, "search", NoFile, NoFile, t), tid), tid)

\* The user answers the quick pick of tagfsSearchByTag (src 613-621): a
\* file, which VS Code opens, or nothing.  The editor change that follows
\* an opening is the event of EditorChange.
PickSearch ==
    \E tid \in TaskIds :
        /\ tasks[tid].pc = "pickFile"
        /\ Commit(Finish(St, tid), tid)

\* onDidRenameFiles (src 1110-1118) for one file.
Rename ==
    \E old \in Files, new \in Files :
        /\ old # new /\ HasFree
        /\ LET tid == FreeSlot IN
           Commit(RenameStart(Begin(tid, "rename", old, new, NoTag), tid), tid)

\* onDidDeleteFiles (src 1120-1126) for one file.
Delete ==
    \E f \in Files :
        /\ HasFree
        /\ LET tid == FreeSlot IN
           Commit(DeleteStart(Begin(tid, "delete", f, NoFile, NoTag), tid), tid)

\* Mutant: the close handler leaves the cache alone.
CloseKeepEntry(s, f) == Emit(s, Ev("close", f, Null))

\* The body of the onDidCloseTextDocument handler (src 1131-1135).
CloseDocument(s, f) == Emit(invalidateFile(s, f), Ev("close", f, Null))

\* onDidCloseTextDocument (src 1129-1137).
Close ==
    \E f \in Files :
        /\ Apply(CloseDocument(St, f), Cmd("close", f, NoFile, NoTag))
        /\ UNCHANGED <<registry, fileVer>>

\* The user changes the tagfs.path setting to v, or clears it; the
\* program reads it with cfg.get (src 375, 521).
ConfigChange ==
    \E v \in Settings :
        /\ v # setting
        /\ Apply([St EXCEPT !.setting = v], NoCmd)
        /\ UNCHANGED <<registry, fileVer>>

\* String.prototype.trim of a text whose only blank character is " ".
RECURSIVE trimStart(_)
trimStart(str) == IF str # <<>> /\ Head(str) = " " THEN trimStart(Tail(str)) ELSE str
RECURSIVE trimEnd(_)
trimEnd(str) ==
    IF str # <<>> /\ str[Len(str)] = " " THEN trimEnd(SubSeq(str, 1, Len(str) - 1)) ELSE str
trim(str) == trimEnd(trimStart(str))

\* What the user may type into the input box of tagfs.setPath (src 980):
\* nothing, a blank, a path, a path with blanks around it.
Inputs == {<<>>, <<" ">>, PathP, <<" ">> \o PathQ \o <<" ">>}

\* Mutant: tryInitFeatures without its test of extensionInitialized.
tryInitFeaturesAgain(s) ==
    IF trim(s.setting) = <<>> THEN s
    ELSE Emit([s EXCEPT !.tagfsExecutable = Some(trim(s.setting)),
                        !.extensionInitialized = TRUE,
                        !.registered = @ + 1],
              Ev("registerFeatures", NoFile, Some(s.setting)))

\* tryInitFeatures (src 1181-1199); it has no await and runs to its end
\* where it is called.
tryInitFeatures(s) ==
    IF s.extensionInitialized THEN s
    ELSE IF trim(s.setting) = <<>> THEN s
    ELSE Emit([s EXCEPT !.tagfsExecutable = Some(trim(s.setting)),
                        !.extensionInitialized = TRUE,
                        !.registered = @ + 1],
              Ev("registerFeatures", NoFile, Some(s.setting)))

\* The least free slot of s.
FreeIn(s) == CHOOSE t \in TaskIds : s.tasks[t] = Idle /\ \A u \in TaskIds : u < t => s.tasks[u] # Idle

\* activate, up to tryInitFeatures (src 1209-1225).
ActivateInit(s) ==
    tryInitFeatures(setStatus([s EXCEPT !.setPathCommand = TRUE], LOADING))

\* activate, `updateTagCount()` (src 1228): called, not awaited.
ActivateCount(s) ==
    LET tid == FreeIn(s) IN
    FinalCount([s EXCEPT !.tasks[tid] = [Idle EXCEPT !.kind = "activate"]], tid)

\* activate, `if (editor) updateTagDecorations(editor)` (src 1230-1233):
\* called, not awaited.
ActivateDeco(s) ==
    IF s.activeFile = NoFile THEN s
    ELSE LET tid == FreeIn(s) IN
         EditorDeco([s EXCEPT !.tasks[tid] = [Idle EXCEPT !.kind = "activate",
                                                          !.f = s.activeFile]], tid)

\* The host calls activate (src 1209-1234); a call after the first one
\* is a new activation in the same process.
Activate ==
    /\ HasFree
    /\ LET s1 == ActivateCount(ActivateInit(St)) IN
       /\ activeFile # NoFile => \E t \in TaskIds : s1.tasks[t] = Idle
       /\ Apply(ActivateDeco(s1), NoCmd)
    /\ UNCHANGED <<registry, fileVer>>

\* Command tagfs.setPath (src 978-983): up to the input box.
SetPath ==
    /\ setPathCommand /\ HasFree
    /\ LET tid == FreeSlot IN
       Commit([Begin(tid, "setPath", NoFile, NoFile, NoTag) EXCEPT !.tasks[tid].pc = "input"],
              tid)

\* The user answers the input box (src 980-986): nothing returns, any
\* other input is trimmed and given to cfg.update.
SetPathInput ==
    \E tid \in TaskIds, input \in Inputs :
        /\ tasks[tid].pc = "input"
        /\ Commit(IF input = <<>> THEN Finish(St, tid)
                  ELSE [St EXCEPT !.tasks[tid].pc = "update", !.tasks[tid].path = trim(input)],
                  tid)

\* tagfs.setPath after cfg.update settled (src 986-992).
SetPathAfter(s, tid, ok) ==
    IF ok
    THEN Finish(tryInitFeatures(showInfo([s EXCEPT !.setting = s.tasks[tid].path], tid)), tid)
    ELSE Finish(showError(s, tid), tid)

\* cfg.update has written the setting, or has failed.
SetPathUpdated ==
    \E tid \in TaskIds, ok \in BOOLEAN :
        /\ tasks[tid].pc = "update"
        /\ Commit(SetPathAfter(St, tid, ok), tid)

\* onDidChangeTextDocument fires for document d (src 1096): the debounced
\* listener is called.
TextChange ==
    \E d \in Files :
        /\ \E h \in Handles : h = timer \/ timeouts[h] = Null
        /\ Apply(debounce(Emit(St, Ev("textChange", d, Null)), d), NoCmd)
        /\ UNCHANGED <<registry, fileVer>>

\* A tick of the clock: every pending timeout is one tick nearer.
Tick ==
    /\ hQuiet < Delay \/ \E h \in Handles : timeouts[h] # Null /\ Val(timeouts[h]).rem > 0
    /\ Apply([St EXCEPT !.timeouts = [h \in Handles |->
                  IF timeouts[h] # Null /\ Val(timeouts[h]).rem > 0
                  THEN Some([Val(timeouts[h]) EXCEPT !.rem = @ - 1])
                  ELSE timeouts[h]]],
             Cmd("tick", NoFile, NoFile, NoTag))
    /\ UNCHANGED <<registry, fileVer>>

\* A timeout that is due fires: the host runs the callback given to
\* setTimeout (src 469), which calls the debounced function (src 1096-1100).
TimerFire ==
    \E h \in Handles :
        /\ timeouts[h] # Null /\ Val(timeouts[h]).rem = 0
        /\ HasFree
        /\ LET d == Val(timeouts[h]).doc
               s0 == Emit([St EXCEPT !.timeouts[h] = Null], Ev("timeout", d, Null))
           IN Apply(RescanStart(s0, FreeSlot, d), NoCmd)
        /\ UNCHANGED <<registry, fileVer>>

coreVars == <<cachedTags, cachedFileTags, execQueue, invs, tasks, activeFile,
              registry, fileVer, obs, timer, timeouts, setting, tagfsExecutable, workspace,
              extensionInitialized, registered, setPathCommand,
              hLastTags, hCleared, hQuiet, hOwed>>
progVars == <<coreVars, comp>>

\* One turn of `while ((match = re.exec(docText)) !== null)` for the tag
\* at hand (src 878-916): a match is pushed and the search goes on after
\* it; null ends the loop of this tag, and the next tag gets a new RegExp.
ScanExec ==
    /\ scan.phase = "scan" /\ scan.tags # <<>> /\ scan.i <= Len(scan.tags)
    /\ LET tag == scan.tags[scan.i]
           m == exec(scan.text, Atoms(escapeRegExp(tag)), scan.lastIndex)
       IN scan' = IF m = Null
                  THEN [scan EXCEPT !.i = @ + 1, !.lastIndex = 0]
                  ELSE [scan EXCEPT !.lastIndex = Val(m).end,
                                    !.decorations = Append(@, Decoration(scan.text, tag, Val(m)))]
    /\ UNCHANGED progVars

\* editor.setDecorations: with no decoration when there is no tag
\* (src 869-872), with the decorations collected after the last tag (src 919).
ScanEnd ==
    /\ scan.phase = "scan" /\ (scan.tags = <<>> \/ scan.i > Len(scan.tags))
    /\ scan' = [scan EXCEPT !.phase = "done"]
    /\ UNCHANGED progVars

\* provideCompletionItems up to its await (src 1010-1021): no item
\* without the trigger before the cursor or without a workspace folder,
\* else fetchTags is called.
CompleteStart ==
    /\ comp.phase = "called"
    /\ LET before == substring(comp.line, 0, comp.character) IN
       comp' = IF ~endsWith(before, COMPLETION_TRIGGER) \/ ~workspace
               THEN [comp EXCEPT !.phase = "done", !.result = Some(<<>>)]
               ELSE [comp EXCEPT !.phase = "fetchTags", !.called = TRUE]
    /\ UNCHANGED <<coreVars, scan>>

\* provideCompletionItems after fetchTags returned or threw (src 1020-1050).
CompleteReturn ==
    /\ comp.phase = "fetchTags"
    /\ LET tags == IF comp.fetch = Null THEN <<>> ELSE Val(comp.fetch) IN
       comp' = [comp EXCEPT !.phase = "done",
                            !.result = Some(Items(tags, TriggerRange(comp.character)))]
    /\ UNCHANGED <<coreVars, scan>>

\* What a successful run of the command does to the backend.
EffectRegistry(cmd, reg) == IF cmd.op = "addtags" THEN reg \cup {cmd.t} ELSE reg
EffectFiles(cmd, fv) ==
    CASE cmd.op \in {"tagresource", "untagresource", "rmresource"} ->
            [fv EXCEPT ![cmd.f] = @ + 1]
      [] cmd.op = "mvresource" -> [fv EXCEPT ![cmd.f] = @ + 1, ![cmd.g] = @ + 1]
      [] OTHER -> fv
Stdout(cmd, reg, fv) ==
    CASE cmd.op = "lstags" -> reg
      [] cmd.op = "getresourcetags" -> fv[cmd.f]
      [] OTHER -> 0

\* A settled result promise: all that is left of the call is its outcome.
Settled(iv, ok) ==
    [iv EXCEPT !.st = IF ok THEN "ok" ELSE "fail", !.owner = 0,
               !.cmd = Cmd("settled", NoFile, NoFile, NoTag), !.dir = Null]

\* Mutant: exec is called at once, as by an execPromise without a queue.
MayStartAtOnce(q, k) == TRUE

\* Mutant: a queued call gives up waiting for a predecessor that has been
\* started and has not settled, as a gateway with a timeout would.
MayStartPastRunning(q, k) ==
    IF q[k].prev = 0 THEN TRUE ELSE q[q[k].prev].st # "queued"

\* Mutant: a call chained behind a failed one is never started, as on
\* a chain that stays rejected.
MayStartAfterSuccess(q, k) ==
    IF q[k].prev = 0 THEN TRUE ELSE q[q[k].prev].st = "ok"

\* When the `.then` callback of execPromise may run (src 363): the chain
\* promise the call was appended to has settled.
MayStart(q, k) == ChainState(q, q[k].prev) # "pending"

\* execPromise's `.then` callback reads the setting (src 374-382): a
\* non-empty value replaces tagfsExecutable, an empty one leaves it alone.
resolveExecutable(s) ==
    IF s.setting # <<>> THEN [s EXCEPT !.tagfsExecutable = Some(s.setting)] ELSE s

\* The directory prepended to PATH (src 384-385).
customDir(s) ==
    IF s.tagfsExecutable # Null THEN dirname(Val(s.tagfsExecutable))
    ELSE DEFAULT_FALLBACK_DIR

\* The `.then` callback of execPromise runs and spawns the subprocess
\* (src 363-393).  On a rejected chain promise the callback is skipped
\* and the result rejects at once.
Start ==
    \E k \in 1..Len(invs) :
        /\ invs[k].st = "queued"
        /\ MayStart(invs, k)
        /\ IF ChainState(invs, invs[k].prev) = "rejected"
           THEN Apply(Resume([St EXCEPT !.invs[k] = Settled(invs[k], FALSE)],
                             invs[k].owner, FALSE, 0), NoCmd)
           ELSE LET s1 == resolveExecutable(St) IN
                Apply([s1 EXCEPT !.invs[k].st = "running", !.invs[k].ran = TRUE,
                                 !.invs[k].dir = Some(customDir(s1))], NoCmd)
        /\ UNCHANGED <<registry, fileVer>>

\* The subprocess exits: exec's callback (src 389-392) settles the result
\* promise and the awaiting function continues.
Settle ==
    \E k \in 1..Len(invs), ok \in BOOLEAN :
        /\ invs[k].st = "running"
        /\ LET cmd == invs[k].cmd
               reg == IF ok THEN EffectRegistry(cmd, registry) ELSE registry
               fv == IF ok THEN EffectFiles(cmd, fileVer) ELSE fileVer
               s0 == [St EXCEPT !.invs[k] = Settled(invs[k], ok)]
           IN /\ Apply(Resume(s0, invs[k].owner, ok, Stdout(cmd, reg, fv)),
                       IF ok THEN cmd ELSE NoCmd)
              /\ registry' = reg
              /\ fileVer' = fv

Next ==
    \/ EditorChange \/ ListTags \/ AddTag \/ ApplyTag \/ ShowFileTags \/ CodeLens
    \/ EditAdd \/ EditRemove \/ PickAdd \/ PickRemove
    \/ Search \/ PickSearch
    \/ Rename \/ Delete \/ Close \/ ConfigChange
    \/ Activate \/ SetPath \/ SetPathInput \/ SetPathUpdated
    \/ TextChange \/ Tick \/ TimerFire
    \/ Start \/ Settle
    \/ ScanExec \/ ScanEnd
    \/ CompleteStart \/ CompleteReturn

Spec == Init /\ [][Next]_vars

\* The Command Gateway under the commands that reach it in different ways:
\* one call, two calls in sequence, calls behind a cache, calls behind a prompt.
NextGateway ==
    \/ ListTags \/ AddTag \/ ApplyTag \/ EditAdd \/ PickAdd \/ CodeLens
    \/ EditRemove \/ PickRemove
    \/ Start \/ Settle

SpecGateway == Init /\ [][NextGateway]_vars

\* The queue of the gateway under one-call commands and a command that
\* chains its calls, when the host runs a callback whose promise has
\* settled (src 363) and every subprocess exits (src 389).
NextQueue ==
    \/ ListTags \/ AddTag \/ ApplyTag
    \/ Start \/ Settle

SpecQueueLive == Init /\ [][NextQueue]_vars /\ WF_vars(Start) /\ WF_vars(Settle)

\* The Tag Cache under every caller of fetchTags and every tag creation.
NextTagCache ==
    \/ ListTags \/ AddTag \/ EditAdd \/ PickAdd \/ ApplyTag \/ EditorChange
    \/ Start \/ Settle

SpecTagCache == Init /\ [][NextTagCache]_vars

\* The File-Tag Cache under its readers, tagFileWithTag and the eviction
\* of a deleted file.
NextFileCache ==
    \/ CodeLens \/ ShowFileTags \/ ApplyTag \/ EditorChange \/ Delete
    \/ Start \/ Settle

SpecFileCache == Init /\ [][NextFileCache]_vars

\* The File-Tag Cache under its readers and the close event.
NextClose ==
    \/ CodeLens \/ ShowFileTags \/ Close
    \/ Start \/ Settle

SpecClose == Init /\ [][NextClose]_vars

\* The File-Tag Cache under a reader and the rename and delete events.
NextMoves ==
    \/ CodeLens \/ Rename \/ Delete
    \/ Start \/ Settle

SpecMoves == Init /\ [][NextMoves]_vars

\* The debounced document-change listener, its timer and its rescans.
NextDebounce ==
    \/ TextChange \/ Tick \/ TimerFire
    \/ Start \/ Settle

SpecDebounce == Init /\ [][NextDebounce]_vars

\* The same under fair scheduling: time passes, a due timeout fires, a
\* queued invocation starts and a running subprocess exits.
SpecDebounceLive ==
    /\ SpecDebounce
    /\ WF_vars(Tick) /\ WF_vars(TimerFire) /\ WF_vars(Start) /\ WF_vars(Settle)

\* updateTagDecorations under its three callers: the editor-change
\* listener, the refresh after a tag operation, the debounced listener.
NextDecorate ==
    \/ EditorChange \/ ApplyTag
    \/ TextChange \/ Tick \/ TimerFire
    \/ Start \/ Settle

SpecDecorate == Init /\ [][NextDecorate]_vars

\* The scan of updateTagDecorations as a function of the document text
\* and the tags of the file.
NextScan == ScanExec \/ ScanEnd

SpecScan == InitScan /\ [][NextScan]_vars

\* tagFileWithTag and untagFileWithTag with their refresh, while the
\* user switches editors and CodeLens reads the File-Tag Cache.
NextRefresh ==
    \/ CodeLens \/ ApplyTag \/ EditRemove \/ PickRemove \/ EditorChange
    \/ Start \/ Settle

SpecRefresh == Init /\ [][NextRefresh]_vars

\* The calls of the gateway while the setting changes.
NextConfig ==
    \/ ListTags \/ AddTag \/ ConfigChange
    \/ Start \/ Settle

SpecConfig == Init /\ [][NextConfig]_vars

\* updateTagCount under its callers, while the setting changes, with and
\* without a workspace folder.
NextStatus ==
    \/ EditorChange \/ ApplyTag \/ ConfigChange
    \/ Start \/ Settle

SpecStatus == InitStatus /\ [][NextStatus]_vars

\* The foreground operations; the refresh after a tagged file populates
\* both caches.
NextForeground ==
    \/ AddTag \/ ApplyTag \/ EditRemove \/ PickRemove
    \/ Search \/ PickSearch \/ Rename \/ Delete
    \/ Start \/ Settle

SpecForeground == Init /\ [][NextForeground]_vars

\* One call of the completion provider.
NextComplete == CompleteStart \/ CompleteReturn

SpecComplete == InitComplete /\ [][NextComplete]_vars

\* Readers of the two caches that show a failure in different ways,
\* with the creation that clears the Tag Cache.
NextReads ==
    \/ ListTags \/ ShowFileTags \/ EditorChange \/ AddTag
    \/ Start \/ Settle

SpecReads == Init /\ [][NextReads]_vars

\* Activation and the tagfs.setPath command, from a module just loaded,
\* while the user also edits the setting.
NextActivation ==
    \/ Activate \/ SetPath \/ SetPathInput \/ SetPathUpdated \/ ConfigChange
    \/ Start \/ Settle

SpecActivation == InitActivation /\ [][NextActivation]_vars

\* tagFileWithTag and untagFileWithTag with a populated File-Tag Cache.
NextTagOps ==
    \/ CodeLens \/ ApplyTag \/ EditRemove \/ PickRemove
    \/ Start \/ Settle

SpecTagOps == Init /\ [][NextTagOps]_vars

\* ------------------------------------------------------------------ claims
IsSettled(iv) == iv.st \in {"ok", "fail"}
Ids == 1..Len(invs)

\* C1: at every instant at most one external-tool subprocess is executing,
\* whatever was submitted to execPromise and whenever.
C1_MutualExclusion ==
    Cardinality({k \in Ids : invs[k].st = "running"}) <= 1

\* C1 witness: a subprocess is running after an earlier one, while a later
\* submission waits.
C1_Witness ==
    \E k \in Ids : /\ invs[k].st = "running"
                   /\ \E i \in Ids, j \in Ids : i < k /\ k < j /\ invs[j].st = "queued"

\* C2: invocations start in submission order, and an invocation has
\* started only if every invocation submitted before it has settled.
C2_FifoStart ==
    \A k \in Ids : invs[k].st # "queued" => \A j \in 1..(k - 1) : IsSettled(invs[j])

\* C2 witness: the second invocation runs after the first has settled,
\* with a third one waiting behind it.
C2_Witness ==
    /\ Len(invs) >= 3
    /\ IsSettled(invs[1]) /\ invs[2].st = "running" /\ invs[3].st = "queued"

\* C3: a failed invocation stops nothing: the stored chain is never
\* rejected, an invocation whose predecessors have all settled can start
\* on a resolved chain, and every settled invocation was settled by a run
\* of its own subprocess.
C3_FailureIsolation ==
    /\ ChainState(invs, execQueue) # "rejected"
    /\ \A k \in Ids :
          /\ IsSettled(invs[k]) => invs[k].ran
          /\ (invs[k].st = "queued" /\ \A j \in 1..(k - 1) : IsSettled(invs[j]))
                => ChainState(invs, invs[k].prev) = "resolved"

\* C3 witness: an invocation failed and a later one ran and succeeded.
C3_Witness ==
    \E j \in Ids, k \in Ids :
        j < k /\ invs[j].st = "fail" /\ invs[k].st = "ok" /\ invs[k].ran

IsFileRead(e) == e.ev \in {"getFileTags.hit", "getFileTags.fetched"}

\* C4: getFileTags never returns, for an identity that was the target of
\* a successful tag, untag, rename (old or new identity) or delete, a
\* snapshot fetched before that mutation completed: what it returns is
\* the identity's tag set as of the last completed mutation.
C4_NeverStale ==
    \A e \in obs : IsFileRead(e) => e.val = Some(fileVer[e.f])

\* C5: once a tag creation has succeeded, from whichever flow, fetchTags
\* never returns a listing fetched before it: what it returns is the
\* registry as of the last completed creation.
C5_FreshAfterCreate ==
    \A e \in obs : IsFetchReturn(e) => e.val = Some(registry)

\* C6: of two consecutive fetchTags calls with no tag creation completed
\* since the first returned, the second submits no `lstags` and returns
\* what the first returned (so the two issue at most the one call of the
\* first).
C6_IdempotentListing ==
    [][hLastTags # Null =>
         /\ \A k \in (Len(invs) + 1)..Len(invs') : invs'[k].cmd.op # "lstags"
         /\ \A e \in obs' : e.ev = "fetchTags.hit" => e.val = hLastTags]_vars

\* C6 witness: one `lstags` call was made in all, it has settled, and a
\* later fetchTags call has been answered from the cache.
C6_Witness ==
    /\ Len(invs) = 1 /\ IsSettled(invs[1])
    /\ hLastTags # Null
    /\ \E e \in obs : e.ev = "fetchTags.hit"
    /\ \A e \in obs : e.ev # "fetchTags.fetched"

\* C7: while a listing call is pending or running, no second `lstags`
\* is submitted: at most one `lstags` invocation is unsettled.
C7_SingleFlight ==
    Cardinality({k \in Ids : ~IsSettled(invs[k]) /\ invs[k].cmd.op = "lstags"}) <= 1

\* C8: operations are not interleaved: the two invocations of one
\* tagFileWithTag are next to each other in the queue, with no other
\* operation's invocation submitted, and so executed, between them.
C8_NotInterleaved ==
    [][\A tid \in TaskIds :
          (tasks[tid].pc = "addresource" /\ tasks'[tid].pc = "tagresource")
             => tasks'[tid].wait = tasks[tid].wait + 1]_vars

\* C9: after tagFileWithTag(f, t) has succeeded (no fetch of f being in
\* flight), the entry of f is absent until the next getFileTags(f), and
\* that call is not answered from the cache: it submits a fresh
\* `getresourcetags f`.
C9_InvalidationCorrect ==
    \A f \in Files :
        hCleared[f] = "cleared" =>
            /\ cachedFileTags[f] = Null
            /\ \A e \in obs : ~(e.ev = "getFileTags.hit" /\ e.f = f)

\* C9 witness: after a successful tagFileWithTag(f, t) the next
\* getFileTags(f) has fetched again and the entry is populated anew.
C9_Witness ==
    \E f \in Files : hCleared[f] = "refetched" /\ cachedFileTags[f] # Null

\* A step of tagFileWithTag run by task tid: its start, or its
\* continuation after addresource, or its failure at either call.
TagFileFails(tid) ==
    /\ tasks[tid].pc \in {"addresource", "tagresource"}
    /\ ~IsSettled(invs[tasks[tid].wait])
    /\ invs'[tasks[tid].wait].st = "fail"
TagFileGoesOn(tid) ==
    \/ tasks[tid].pc # "addresource" /\ tasks'[tid].pc = "addresource"
    \/ tasks[tid].pc = "addresource" /\ tasks'[tid].pc = "tagresource"

\* C10: tagFileWithTag leaves the File-Tag Cache alone unless both calls
\* succeeded: a failure of addresource or of tagresource changes no
\* entry, shows the error, and triggers neither the refresh nor a rescan;
\* the steps before it change no entry either.
C10_AllOrNothing ==
    [][\A tid \in TaskIds :
          /\ TagFileGoesOn(tid) => cachedFileTags' = cachedFileTags
          /\ TagFileFails(tid) =>
                /\ cachedFileTags' = cachedFileTags
                /\ \E e \in obs' : e.ev = "showError" /\ e.f = tasks[tid].f
                /\ \A e \in obs' : e.ev \notin {"refresh", "setDecorations"}
                /\ \A k \in (Len(invs) + 1)..Len(invs') :
                      invs'[k].cmd.op # "getresourcetags"]_vars

\* C10 witness: tagresource has just failed for a file whose entry is
\* populated.
C10_Witness ==
    \E e \in obs : /\ e.ev = "showError" /\ e.val = Some("tagresource")
                   /\ cachedFileTags[e.f] # Null

\* The invocations submitted by the step.
NewIds == (Len(invs) + 1)..Len(invs')
\* The step settles the invocation task tid awaits, with outcome st.
Settles(tid, st) ==
    /\ tasks[tid].wait \in Ids
    /\ ~IsSettled(invs[tasks[tid].wait])
    /\ invs'[tasks[tid].wait].st = st

\* C11: tagFileWithTag first submits `addresource f` and nothing else;
\* `tagresource f t` is submitted only by the step in which that
\* addresource succeeded, and never when it failed; the entry of f is
\* deleted by tagFileWithTag only in the step in which tagresource
\* succeeded.
C11_RegisterThenAssociate ==
    [][\A tid \in TaskIds :
          LET f == tasks[tid].f IN
          /\ (tasks[tid].pc # "addresource" /\ tasks'[tid].pc = "addresource") =>
                /\ Len(invs') = Len(invs) + 1
                /\ invs'[Len(invs')].cmd = Cmd("addresource", tasks'[tid].f, NoFile, NoTag)
          /\ (\E k \in NewIds : invs'[k].owner = tid /\ invs'[k].cmd.op = "tagresource") =>
                /\ tasks[tid].pc = "addresource"
                /\ invs[tasks[tid].wait].cmd = Cmd("addresource", f, NoFile, NoTag)
                /\ Settles(tid, "ok")
                /\ invs'[Len(invs')].cmd = Cmd("tagresource", f, NoFile, tasks[tid].t)
                /\ Len(invs') = Len(invs) + 1
          /\ (tasks[tid].pc = "addresource" /\ Settles(tid, "fail")) =>
                /\ tasks'[tid].pc # "tagresource"
                /\ \A k \in NewIds : invs'[k].cmd.op # "tagresource"
          /\ (tasks[tid].pc \in {"addresource", "tagresource"}
                 /\ (Settles(tid, "ok") \/ Settles(tid, "fail"))
                 /\ cachedFileTags[f] # Null /\ cachedFileTags'[f] = Null) =>
                tasks[tid].pc = "tagresource" /\ Settles(tid, "ok")]_vars

\* C11 witness: addresource has succeeded and tagresource is running,
\* the entry of the file still being in the cache.
C11_Witness ==
    \E tid \in TaskIds :
        /\ tasks[tid].pc = "tagresource"
        /\ invs[tasks[tid].wait].st = "running"
        /\ invs[tasks[tid].wait - 1].st = "ok"
        /\ cachedFileTags[tasks[tid].f] # Null

\* C12: untagFileWithTag submits one call, `untagresource f t`, and no
\* other call that changes the backend; in the step in which it succeeds
\* the entry of f is deleted, and the getFileTags(f) of the refresh that
\* follows is not answered from the cache but submits `getresourcetags f`.
C12_UntagOnce ==
    [][\A tid \in TaskIds :
          LET f == tasks[tid].f IN
          /\ (tasks[tid].pc = "pickRemove" /\ tasks'[tid].pc = "untagresource") =>
                /\ Len(invs') = Len(invs) + 1
                /\ invs'[Len(invs')].cmd = Cmd("untagresource", f, NoFile, tasks'[tid].t)
          /\ (tasks[tid].kind = "editRemove" /\ tasks[tid].pc # "pickRemove") =>
                \A k \in NewIds : invs'[k].owner = tid =>
                    invs'[k].cmd.op \in {"lstags", "getresourcetags"}
          /\ (tasks[tid].pc = "untagresource" /\ Settles(tid, "ok")) =>
                /\ cachedFileTags'[f] = Null
                /\ \A e \in obs' : ~(e.ev = "getFileTags.hit" /\ e.f = f)
                /\ (activeFile = f /\ cachedTags # Null) =>
                      \E k \in NewIds : invs'[k].cmd = Cmd("getresourcetags", f, NoFile, NoTag)]_vars

\* C12 witness: untagresource has succeeded; the entry is gone and the
\* refresh of untagFileWithTag awaits its fresh `getresourcetags f`.
C12_Witness ==
    \E tid \in TaskIds :
        /\ tasks[tid].kind = "editRemove" /\ tasks[tid].pc = "refresh_grt"
        /\ cachedFileTags[tasks[tid].f] = Null
        /\ invs[tasks[tid].wait].cmd = Cmd("getresourcetags", tasks[tid].f, NoFile, NoTag)

\* C13: the close handler deletes the entry of the closed document and
\* nothing else, shows no error, and changes nothing when there is no
\* entry; after a close of f (no fetch of f being in flight) the entry
\* stays absent until the next getFileTags(f), which is not answered
\* from the cache although no mutation occurred.
C13_EvictionOnClose ==
    [][/\ \A e \in obs' : e.ev = "close" =>
             /\ cachedFileTags' = [cachedFileTags EXCEPT ![e.f] = Null]
             /\ cachedFileTags[e.f] = Null => cachedFileTags' = cachedFileTags
             /\ cachedTags' = cachedTags /\ invs' = invs /\ tasks' = tasks
             /\ \A d \in obs' : d.ev # "showError"
       /\ \A f \in Files : hCleared'[f] = "closed" =>
             /\ cachedFileTags'[f] = Null
             /\ fileVer'[f] = fileVer[f]
             /\ \A e \in obs' : ~(e.ev = "getFileTags.hit" /\ e.f = f)]_vars

\* C13 witness: a populated entry was evicted by a close, and the next
\* getFileTags of the file has fetched it again from the unchanged backend.
C13_Witness ==
    \E f \in Files :
        /\ hCleared[f] = "refetched" /\ fileVer[f] = 0
        /\ \E e \in obs : e.ev = "getFileTags.fetched" /\ e.f = f

IsMoveOrRemove(e) ==
    /\ e.ev \in {"showInfo", "showError"}
    /\ e.val \in {Some("rmresource"), Some("mvresource")}

\* C14: when the handler of a file-deleted event for f, or of a
\* file-renamed event with old identity f, has finished, the File-Tag
\* Cache holds no entry for f, whether the rmresource / mvresource call
\* succeeded or failed.
C14_EvictedWhateverOutcome ==
    \A e \in obs : IsMoveOrRemove(e) => cachedFileTags[e.f] = Null

\* C15: the rename handler first submits `mvresource old new`, evicting
\* nothing yet; when the call has succeeded the old identity is evicted
\* and the new identity has no entry, so that the first getFileTags(new)
\* after the rename fetches.
C15_RenameProtocol ==
    [][\A tid \in TaskIds :
          /\ (tasks[tid].pc # "mvresource" /\ tasks'[tid].pc = "mvresource") =>
                /\ Len(invs') = Len(invs) + 1
                /\ invs'[Len(invs')].cmd = Cmd("mvresource", tasks'[tid].f, tasks'[tid].g, NoTag)
                /\ cachedFileTags' = cachedFileTags
          /\ (tasks[tid].pc = "mvresource" /\ Settles(tid, "ok")) =>
                /\ cachedFileTags'[tasks[tid].f] = Null
                /\ cachedFileTags'[tasks[tid].g] = Null]_vars

\* A whitespace character of the text.
Whitespace == {" ", "\n", "\t", "\r"}
\* The tag stands at offset p of the text as a token of its own.
Standalone(text, tag, p) ==
    /\ p + Len(tag) <= Len(text)
    /\ SubSeq(text, p + 1, p + Len(tag)) = tag
    /\ p = 0 \/ text[p] \in Whitespace
    /\ p + Len(tag) = Len(text) \/ text[p + Len(tag) + 1] \in Whitespace

\* C16: every decoration the scan reports covers, from startOffset to
\* endOffset, a piece of the text that equals the tag and stands between
\* the start of the text or a whitespace character and the end of the
\* text or a whitespace character; scanning "foo bar foobar bar" for
\* "bar" reports the two tokens at offsets 4 and 15 and nothing else.
C16_ScanSound ==
    /\ \A k \in 1..Len(scan.decorations) :
          LET d == scan.decorations[k] IN
          d.start >= 0 /\ Standalone(scan.text, d.tag, d.start)
    /\ (scan.phase = "done" /\ scan.text = ExampleText /\ scan.tags = <<ExampleTag>>) =>
          scan.decorations = <<[start |-> 4, end |-> 7, tag |-> ExampleTag],
                               [start |-> 15, end |-> 18, tag |-> ExampleTag]>>

\* C17: when the scan has ended, every place where a tag of the file
\* stands in the text as a token of its own has a decoration, also the
\* second of two tokens with one whitespace character between them and a
\* token at the start of a later line.
C17_ScanComplete ==
    scan.phase = "done" =>
        \A i \in 1..Len(scan.tags), p \in 0..Len(scan.text) :
            Standalone(scan.text, scan.tags[i], p) =>
                \E k \in 1..Len(scan.decorations) :
                    /\ scan.decorations[k].start = p
                    /\ scan.decorations[k].tag = scan.tags[i]

\* The positions at which updateTagDecorations awaits its getFileTags.
DecoPcs == {"refresh_grt", "ec_grt", "rescan_grt"}

\* C18: when the fetch of the file's tag set fails, updateTagDecorations
\* sets an empty list of decorations on the editor, shows no error
\* message, leaves the caches as they were, and its caller goes on as
\* after a successful rescan.
C18_ScannerDegrades ==
    [][\A tid \in TaskIds :
          (tasks[tid].pc \in DecoPcs /\ Settles(tid, "fail")) =>
              /\ Ev("setDecorations", tasks[tid].f, Null) \in obs'
              /\ \A e \in obs' : e.ev # "showError"
              /\ cachedFileTags' = cachedFileTags /\ cachedTags' = cachedTags
              /\ \/ tasks'[tid] = Idle
                 \/ tasks[tid].kind = "applyTag" /\ tasks'[tid].pc = "final_lstags"]_vars

\* C18 witness: a fetch of updateTagDecorations has just failed and the
\* decorations of the document were set to the empty list.
C18_Witness ==
    /\ \E e \in obs : e.ev = "setDecorations" /\ e.val = Null
    /\ \E k \in Ids : invs[k].st = "fail"

PendingTimeouts == {h \in Handles : timeouts[h] # Null}

\* C19: at most one timeout is pending at any time; a change event
\* leaves exactly one, its own, with the full delay to run (the timeout
\* pending before it is cancelled); a timeout fires, and with it the
\* rescan runs, only when the delay has passed since the most recent
\* change event, and it leaves no timeout pending, so that the changes
\* before it yield this one rescan at most.
C19_TrailingDebounce ==
    [][/\ Cardinality(PendingTimeouts') <= 1
       /\ \A e \in obs' : e.ev = "textChange" =>
             /\ timer' \in Handles
             /\ PendingTimeouts' = {timer'}
             /\ timeouts'[timer'] = Some([rem |-> Delay, doc |-> e.f])
       /\ \A e \in obs' : e.ev \in {"timeout", "rescan"} =>
             /\ hQuiet >= Delay
             /\ PendingTimeouts' = {}]_vars

\* C19 witness: the timeout has fired a full delay after the last change
\* event, the rescan has started, and no timeout is left.
C19_Witness ==
    /\ \E e \in obs : e.ev = "rescan"
    /\ hQuiet = Delay /\ timer # 0
    /\ PendingTimeouts = {}

\* No invocation is left for the fetch of one more rescan.
Exhausted == Len(invs) >= MaxInv

\* C20: if the edits of a document f stop, then every edit of f made
\* while f was the active editor's document is followed by a rescan of
\* f by the debounced listener, whatever change events of other
\* documents arrive in between (as long as MaxInv leaves room for the
\* fetch of the rescan).
C20_RescanAfterQuiet ==
    \A f \in Files :
        \/ []<>(\E e \in obs : e.ev = "textChange" /\ e.f = f)
        \/ (hOwed = f) ~> (hOwed # f \/ Exhausted)

\* Task tid is in tagFileWithTag / untagFileWithTag or in the refresh
\* that follows their success.
RefreshPcs == {"refresh_lstags", "refresh_grt"}
MutationPcs == {"tagresource", "untagresource"}

\* C21: in the step in which tagresource / untagresource of f succeeds
\* the entry of f is deleted and the refresh begins; when the refresh
\* ends with f the active editor's document it has set the decorations
\* of f anew, and the tag set it scanned with, when it got one, is the
\* backend's tag set of f after the mutation.
C21_RescanAfterMutation ==
    [][\A tid \in TaskIds :
          LET f == tasks[tid].f
              own == Settles(tid, "ok") \/ Settles(tid, "fail")
              scanned == {e \in obs' : e.ev = "setDecorations" /\ e.f = f}
          IN
          /\ (tasks[tid].pc \in MutationPcs /\ Settles(tid, "ok")) =>
                /\ cachedFileTags'[f] = Null
                /\ \E e \in obs' : e.ev = "refresh" /\ e.f = f
                /\ scanned = {}
                /\ (activeFile = f) => tasks'[tid].pc \in RefreshPcs
          /\ (tasks[tid].pc \in RefreshPcs /\ own /\ tasks'[tid].pc \notin RefreshPcs
                 /\ activeFile = f) => scanned # {}
          /\ (tasks[tid].pc \in RefreshPcs /\ own) =>
                \A e \in scanned : e.val # Null => e.val = Some(fileVer'[f])]_vars

\* C21 witness: the refresh after a successful tag or untag of the active
\* document has just fetched its tag set again and set the decorations
\* with it.
C21_Witness ==
    \E e \in obs, d \in obs :
        /\ e.ev = "setDecorations" /\ e.val # Null /\ Val(e.val) > 0
        /\ d.ev = "getFileTags.fetched" /\ d.f = e.f /\ d.val = e.val
        /\ e.f = activeFile /\ hCleared[e.f] = "refetched"

\* C25: tagfs.applyTagFromCompletion with tag t acts on the identity of
\* the document active when it is invoked: it submits `addresource f`
\* alone, after its success `tagresource f t`, and after that one's
\* success deletes the entry of f and of no other file; when either call
\* fails the error message is shown, no cache changes, and the command
\* goes on to updateTagCount.
C25_ApplyFromCompletion ==
    [][\A tid \in TaskIds :
          LET f == tasks[tid].f
              last == invs'[Len(invs')].cmd
          IN
          /\ (tasks[tid].kind # "applyTag" /\ tasks'[tid].kind = "applyTag") =>
                /\ activeFile # NoFile /\ tasks'[tid].f = activeFile
                /\ tasks'[tid].t \in TagNames
                /\ Len(invs') = Len(invs) + 1
                /\ last = Cmd("addresource", activeFile, NoFile, NoTag)
                /\ cachedFileTags' = cachedFileTags /\ cachedTags' = cachedTags
          /\ (tasks[tid].kind = "applyTag" /\ tasks[tid].pc = "addresource"
                 /\ Settles(tid, "ok")) =>
                /\ Len(invs') = Len(invs) + 1
                /\ last = Cmd("tagresource", f, NoFile, tasks[tid].t)
                /\ cachedFileTags' = cachedFileTags
          /\ (tasks[tid].kind = "applyTag" /\ tasks[tid].pc = "tagresource"
                 /\ Settles(tid, "ok")) =>
                /\ cachedFileTags' = [cachedFileTags EXCEPT ![f] = Null]
                /\ \A e \in obs' : e.ev # "showError"
          /\ (tasks[tid].kind = "applyTag" /\ tasks[tid].pc \in {"addresource", "tagresource"}
                 /\ Settles(tid, "fail")) =>
                /\ Ev("showError", f, Some(tasks[tid].pc)) \in obs'
                /\ cachedFileTags' = cachedFileTags /\ cachedTags' = cachedTags
                /\ \/ tasks'[tid].pc = "final_lstags" /\ last.op = "lstags"
                   \/ tasks'[tid] = Idle /\ \E e \in obs' : e.ev = "fetchTags.hit"]_vars

\* C25 witness: the command was invoked on a document that is no longer
\* the active one, its tagresource has just failed, the error is shown
\* and the command has gone on to updateTagCount.
C25_Witness ==
    \E tid \in TaskIds :
        /\ tasks[tid].kind = "applyTag" /\ tasks[tid].pc = "final_lstags"
        /\ tasks[tid].f # activeFile
        /\ Ev("showError", tasks[tid].f, Some("tagresource")) \in obs

\* C28: as long as an invocation is running without settling, every
\* invocation submitted after it stays queued, exactly as submitted; a
\* queued invocation leaves the queue only by being started, with its
\* command and its caller unchanged, and a running one only by its
\* subprocess exiting; no invocation is ever removed, whatever time passes.
C28_NoTimeoutNoCancel ==
    [][/\ Len(invs') >= Len(invs)
       /\ \A k \in Ids :
             /\ invs[k].st = "queued" =>
                   /\ invs'[k].st \in {"queued", "running"}
                   /\ invs'[k].cmd = invs[k].cmd /\ invs'[k].owner = invs[k].owner
                   /\ tasks'[invs[k].owner] = tasks[invs[k].owner]
             /\ (invs[k].st = "running" /\ invs'[k].st = "running") =>
                   /\ invs'[k] = invs[k]
                   /\ tasks'[invs[k].owner] = tasks[invs[k].owner]
                   /\ \A j \in Ids : j > k => invs[j].st = "queued" /\ invs'[j] = invs[j]
             /\ (invs[k].st = "running" /\ invs'[k].st # "running") =>
                   /\ IsSettled(invs'[k])
                   /\ timer' = timer /\ timeouts' = timeouts]_vars

\* C28 witness: an invocation is running, another one is queued behind
\* it, every handler that can run is waiting for one of the two, and a
\* debounce delay has passed to its end with its timeout now due.
C28_Witness ==
    \E k \in Ids, j \in Ids :
        /\ k < j /\ invs[k].st = "running" /\ invs[j].st = "queued"
        /\ ~HasFree
        /\ hQuiet = Delay
        /\ \E h \in PendingTimeouts : Val(timeouts[h]).rem = 0

\* C30: when the document f has been closed, getFileTags(f) has not been
\* called since, and every invocation has settled (those pending at the
\* close among them), the File-Tag Cache holds no entry for f.
C30_OnlyOpenFiles ==
    \A f \in Files :
        (hCleared[f] \in {"closed", "closedBusy"} /\ \A k \in Ids : IsSettled(invs[k]))
            => cachedFileTags[f] = Null

\* C26: the directory an invocation is started with is the directory of
\* the setting's value at that moment when the setting is non-empty, and
\* the default fallback location when it is unset or empty.
C26_PerCallResolution ==
    [][\A k \in Ids :
          (invs[k].st = "queued" /\ invs'[k].st = "running") =>
              invs'[k].dir = Some(IF setting # <<>> THEN dirname(setting)
                                  ELSE DEFAULT_FALLBACK_DIR)]_vars

\* The positions at which a handler awaits the fetchTags of updateTagCount.
CountPcs == {"final_lstags", "refresh_lstags", "ec_lstags"}
StatusTexts == {e.val : e \in {d \in obs' : d.ev = "statusBarItem.text"}}

\* C29: the step in which the listing of updateTagCount settles shows no
\* error message and lets the caller go on; when the listing failed it
\* sets the status text to the error text and leaves the Tag Cache
\* as it was; a handler that calls updateTagCount while the setting is empty
\* or no workspace folder exists sets the text to "Not Configured" or
\* "Not Initialized", and no step submits a listing in that situation.
C29_PassiveStatus ==
    [][/\ \A tid \in TaskIds :
             /\ (tasks[tid].pc \in CountPcs
                    /\ (Settles(tid, "ok") \/ Settles(tid, "fail"))) =>
                   /\ \A e \in obs' : e.ev # "showError"
                   /\ tasks'[tid].pc # tasks[tid].pc
                   /\ tasks'[tid].pc = "" => tasks'[tid] = Idle
             /\ (tasks[tid].pc \in CountPcs /\ Settles(tid, "fail")) =>
                   /\ ERROR \in StatusTexts
                   /\ cachedTags' = cachedTags
             /\ (tasks[tid].pc \in CountPcs /\ Settles(tid, "ok")) =>
                   /\ TagCountText(registry') \in StatusTexts
                   /\ ERROR \notin StatusTexts
             /\ (tasks[tid].kind # "editorChange" /\ tasks'[tid].kind = "editorChange"
                    /\ (setting = <<>> \/ ~workspace)) =>
                   /\ StatusTexts = {IF setting = <<>> THEN NOT_CONFIGURED
                                      ELSE NOT_INITIALIZED}
                   /\ \A e \in obs' : e.ev # "showError"
       /\ (setting = <<>> \/ ~workspace) =>
             \A k \in NewIds : invs'[k].cmd.op # "lstags"]_vars

\* C29 witness: the listing of updateTagCount has just failed in the
\* handler of an editor change: the status bar shows the error text, no
\* message is shown, and the handler has gone on to read the file's tags.
C29_Witness ==
    \E tid \in TaskIds :
        /\ tasks[tid].kind = "editorChange" /\ tasks[tid].pc = "ec_grt"
        /\ Ev("statusBarItem.text", NoFile, ERROR) \in obs
        /\ cachedTags = Null

\* The positions at which a foreground operation awaits its backend
\* call: create tag, tag file (two calls), untag file, search, delete
\* resource, move resource.
ForegroundPcs ==
    {"addtags", "addresource", "tagresource", "untagresource",
     "lsresources", "rmresource", "mvresource"}

HasTrigger ==
    /\ comp.character >= 2
    /\ comp.line[comp.character - 1] = "#" /\ comp.line[comp.character] = "#"
Suggestions == Val(comp.result)

\* C22: fetchTags is called only with the trigger before the cursor; a
\* call of provideCompletionItems that returns a suggestion had the
\* trigger before the cursor, and one without the trigger returns the
\* empty list without having called fetchTags.
C22_CompletionActivation ==
    /\ comp.called => HasTrigger
    /\ comp.phase = "done" =>
          /\ Suggestions # <<>> => HasTrigger
          /\ ~HasTrigger => Suggestions = <<>> /\ ~comp.called

\* C22 witness: the cursor is behind a single '#' that follows another
\* character; the provider has returned no suggestion and made no call.
C22_Witness ==
    /\ comp.phase = "done" /\ comp.character = 2
    /\ comp.line[1] = "b" /\ comp.line[2] = "#"
    /\ Suggestions = <<>> /\ ~comp.called /\ workspace

\* C23: every suggestion returned has the range of the two trigger
\* characters that end at the cursor; a tag suggestion inserts the tag
\* name alone, so that accepting it turns the line into the text before
\* the trigger, the tag, and the text after the cursor.
C23_ReplacementRange ==
    comp.phase = "done" =>
        \A i \in 1..Len(Suggestions) :
            LET item == Suggestions[i] IN
            /\ item.range.end = comp.character
            /\ item.range.start = comp.character - 2
            /\ SubSeq(comp.line, item.range.start + 1, item.range.end) = <<"#", "#">>
            /\ item.command # Null =>
                  /\ item.insertText = Val(comp.fetch)[i]
                  /\ Accept(comp.line, item) =
                        SubSeq(comp.line, 1, comp.character - 2) \o Val(comp.fetch)[i]
                            \o SubSeq(comp.line, comp.character + 1, Len(comp.line))

\* C23 witness: two tag suggestions were returned for a cursor with text
\* on both sides of the trigger.
C23_Witness ==
    /\ comp.phase = "done" /\ Len(Suggestions) = 2
    /\ comp.character = 3 /\ comp.line[1] = "b"
    /\ Suggestions[1].insertText = TagY

\* C24: in a window with a workspace folder, a call with the trigger
\* before the cursor never returns the empty list; when fetchTags threw
\* or returned no tag it returns the placeholder alone, which has no
\* command; otherwise it returns one suggestion per tag, in the order of
\* the tags, each with the command that applies its tag, and no
\* placeholder.
C24_EmptyStateCompletion ==
    (comp.phase = "done" /\ HasTrigger /\ workspace) =>
        LET tags == IF comp.fetch = Null THEN <<>> ELSE Val(comp.fetch) IN
        /\ Suggestions # <<>>
        /\ tags = <<>> =>
              /\ Len(Suggestions) = 1
              /\ Suggestions[1].command = Null
              /\ Suggestions[1].label = <<"(no tags found)">>
        /\ tags # <<>> =>
              /\ Len(Suggestions) = Len(tags)
              /\ \A i \in 1..Len(tags) :
                    /\ Suggestions[i].label = tags[i]
                    /\ Suggestions[i].command =
                          Some([command |-> "tagfs.applyTagFromCompletion",
                                arguments |-> <<tags[i]>>])

\* C24 witness: fetchTags threw and the provider has returned the
\* placeholder alone.
C24_Witness ==
    /\ comp.phase = "done" /\ comp.called /\ comp.fetch = Null
    /\ Len(Suggestions) = 1 /\ Suggestions[1].command = Null

\* The operations of the backend that take a file.
FileOps ==
    {"addresource", "tagresource", "untagresource", "getresourcetags",
     "rmresource", "mvresource"}

\* C31: every invocation of a file-scoped operation (register, tag,
\* untag, list file tags, delete resource, move resource) passes as its
\* file argument the normalized identity of the file, './'-prefixed with
\* forward slashes: the string that is the file's key in the File-Tag
\* Cache (for a move: the identities of the old and of the new path).
C31_IdentityArgument ==
    \A k \in Ids :
        LET c == invs[k].cmd IN
        c.op \in FileOps =>
            c.paths = IF c.op = "mvresource" THEN <<Key[c.f], Key[c.g]>> ELSE <<Key[c.f]>>

\* The tag has a character that is special in a regular expression.
HasSpecial(tag) == \E i \in 1..Len(tag) : tag[i] \in Special

\* C32: a tag with a character that is special in regular expressions is
\* matched literally: every decoration reported for it starts at the
\* first character of a standalone token whose text equals the tag
\* character for character, and never at a token the tag matches only
\* as a pattern.
C32_LiteralMatch ==
    \A k \in 1..Len(scan.decorations) :
        LET d == scan.decorations[k] IN
        HasSpecial(d.tag) =>
            /\ d.start >= 0
            /\ Standalone(scan.text, d.tag, d.start)

\* The positions at which tagFileWithTag / untagFileWithTag await their
\* backend calls.
TagOpPcs == {"addresource", "tagresource", "untagresource"}

\* C33: no step of tagFileWithTag / untagFileWithTag on f, whether its
\* call succeeds or fails, changes the File-Tag Cache entry of a file
\* other than f; the steps up to the end of the backend calls leave the
\* Tag Cache as it is, and the refresh that follows a success never
\* clears it: the Tag Cache changes there only by fetchTags storing the
\* listing it has just fetched.
C33_MutationFrame ==
    [][\A tid \in TaskIds :
          LET f == tasks'[tid].f
              own == Settles(tid, "ok") \/ Settles(tid, "fail")
              others == \A g \in Files \ {tasks[tid].f} : cachedFileTags'[g] = cachedFileTags[g]
          IN
          /\ (tasks[tid].pc \notin TagOpPcs /\ tasks'[tid].pc \in TagOpPcs) =>
                /\ \A g \in Files \ {f} : cachedFileTags'[g] = cachedFileTags[g]
                /\ cachedFileTags'[f] = cachedFileTags[f]
                /\ cachedTags' = cachedTags
          /\ (tasks[tid].pc \in TagOpPcs /\ own) =>
                others /\ cachedTags' = cachedTags
          /\ (tasks[tid].pc \in RefreshPcs /\ own) =>
                /\ others
                /\ cachedTags # Null => cachedTags' # Null
                /\ cachedTags' # cachedTags =>
                      Ev("fetchTags.fetched", NoFile, cachedTags') \in obs']_vars

\* C33 witness: a tagresource has just succeeded for one file while the
\* entry of the other file and the Tag Cache are populated, and both are
\* still there.
C33_Witness ==
    \E e \in obs, g \in Files :
        /\ e.ev = "showInfo" /\ e.val = Some("tagresource")
        /\ g # e.f /\ cachedFileTags[g] # Null /\ cachedFileTags[e.f] = Null
        /\ cachedTags # Null

\* The positions at which the add-tag-to-file flow awaits a creation call.
CreatePcs == {"qp_addtags", "ea_addtags"}

\* C34: in the add-tag-to-file flow a creation call is submitted only by
\* the step in which the user has entered the new name, so that one
\* `addtags` is issued for it, and the step in which a creation call of
\* the flow succeeds goes on to tagFileWithTag for the file and the tag.
C34_SingleCreation ==
    [][\A tid \in TaskIds :
          tasks[tid].kind = "editAdd" =>
              /\ (\E k \in NewIds : invs'[k].owner = tid /\ invs'[k].cmd.op = "addtags") =>
                    tasks[tid].pc = "pick"
              /\ (tasks[tid].pc \in CreatePcs /\ Settles(tid, "ok")) =>
                    /\ tasks'[tid].pc = "addresource"
                    /\ invs'[Len(invs')].cmd =
                          Cmd("addresource", tasks[tid].f, NoFile, NoTag)]_vars

\* The positions at which a handler awaits the listing of fetchTags, and
\* the fetch of getFileTags.
ListingPcs == CountPcs \cup {"list_lstags", "ea_lstags"}
FileFetchPcs == DecoPcs \cup {"show_grt", "lens_grt", "er_grt"}

\* C35: in the step in which the `lstags` of fetchTags fails the Tag
\* Cache is not written and the caller's catch runs (the error message,
\* or the error text of the status bar); likewise a failed
\* `getresourcetags f` of getFileTags writes no entry and reaches the
\* caller's catch (the error message, no decorations, no lens).  A read
\* of a cache that is unpopulated is never answered from the cache
\* unless a fetch has just stored a listing: it issues a new call.
C35_FailedFetchNotCached ==
    [][/\ \A tid \in TaskIds :
             LET pc == tasks[tid].pc IN
             /\ (pc \in ListingPcs /\ Settles(tid, "fail")) =>
                   /\ cachedTags' = cachedTags
                   /\ \A e \in obs' : e.ev # "fetchTags.fetched"
                   /\ IF pc \in CountPcs THEN ERROR \in StatusTexts
                      ELSE Ev("showError", tasks[tid].f, Some(pc)) \in obs'
             /\ (pc \in FileFetchPcs /\ Settles(tid, "fail")) =>
                   /\ cachedFileTags' = cachedFileTags
                   /\ \A e \in obs' : e.ev # "getFileTags.fetched"
                   /\ IF pc \in DecoPcs
                      THEN Ev("setDecorations", tasks[tid].f, Null) \in obs'
                      ELSE IF pc = "lens_grt" THEN tasks'[tid] = Idle
                      ELSE Ev("showError", tasks[tid].f, Some(pc)) \in obs'
       /\ cachedTags = Null =>
             ((\E e \in obs' : e.ev = "fetchTags.hit")
                 => \E e \in obs' : e.ev = "fetchTags.fetched")
       /\ \A f \in Files : cachedFileTags[f] = Null =>
             \A e \in obs' : ~(e.ev = "getFileTags.hit" /\ e.f = f)]_vars

\* C35 witness: the listing of tagfs.listtags has just failed, the error
\* is shown and the Tag Cache is still unpopulated, after an earlier
\* failure of a fetch of the active file's tags, whose entry is missing.
C35_Witness ==
    /\ Ev("showError", NoFile, Some("list_lstags")) \in obs
    /\ cachedTags = Null
    /\ activeFile # NoFile /\ cachedFileTags[activeFile] = Null
    /\ Cardinality({k \in Ids : invs[k].st = "fail"}) >= 2

\* The empty snapshots: the listing of a registry without tags, and the
\* tag list of a file in the backend's initial state, in which no tag
\* exists.
EmptyTags == Some({})
EmptyFileTags == Some(0)

\* C36: while the Tag Cache holds the empty listing and is not cleared,
\* no step submits an `lstags` and every fetchTags answered from the
\* cache returns the empty listing; while the entry of f holds the empty
\* tag list and is not deleted, no step submits a `getresourcetags f`
\* and every getFileTags(f) answered from the cache returns the empty
\* list.
C36_EmptyIsPopulated ==
    [][/\ (cachedTags = EmptyTags /\ cachedTags' # Null) =>
             /\ \A k \in NewIds : invs'[k].cmd.op # "lstags"
             /\ \A e \in obs' : e.ev = "fetchTags.hit" => e.val = EmptyTags
       /\ \A f \in Files :
             (cachedFileTags[f] = EmptyFileTags /\ cachedFileTags'[f] # Null) =>
                 /\ \A k \in NewIds :
                       invs'[k].cmd # Cmd("getresourcetags", f, NoFile, NoTag)
                 /\ \A e \in obs' :
                       (e.ev = "getFileTags.hit" /\ e.f = f) => e.val = EmptyFileTags]_vars

\* C36 witness: an editor change has just read both caches, each holding
\* an empty snapshot, and was answered from the caches: no invocation is
\* queued or running.
C36_Witness ==
    /\ Ev("fetchTags.hit", NoFile, EmptyTags) \in obs
    /\ Ev("getFileTags.hit", activeFile, EmptyFileTags) \in obs
    /\ Ev("setDecorations", activeFile, EmptyFileTags) \in obs
    /\ \A k \in Ids : IsSettled(invs[k])

\* C37: if every subprocess exits, then every invocation submitted to
\* execPromise is started and its promise settles, after successes and
\* after failures of the invocations before it (as long as MaxInv leaves
\* room for the call a continuation makes).
C37_QueueLiveness ==
    \A k \in 1..MaxInv :
        (Len(invs) >= k /\ ~IsSettled(invs[k]))
            ~> (\/ Len(invs) >= k /\ IsSettled(invs[k]) /\ invs[k].ran
                \/ Exhausted)

\* C37 witness: three invocations and more were submitted, one has
\* failed and a later one has succeeded, and all of them have run and
\* settled.
C37_Witness ==
    /\ Len(invs) >= 3
    /\ \A k \in Ids : IsSettled(invs[k]) /\ invs[k].ran
    /\ \E j \in Ids, k \in Ids : j < k /\ invs[j].st = "fail" /\ invs[k].st = "ok"
    /\ \A tid \in TaskIds : tasks[tid] = Idle

\* C38: whatever the sequence of activate and tagfs.setPath calls, the
\* features are registered at most once, and the step that registers
\* them is a step of tryInitFeatures that finds extensionInitialized
\* false and the tagfs.path setting non-empty.
C38_InitOnce ==
    [][/\ registered' <= 1
       /\ registered' # registered =>
             /\ registered' = registered + 1
             /\ ~extensionInitialized /\ extensionInitialized'
             /\ setting' # <<>>
             /\ tagfsExecutable' = Some(setting')
             /\ Ev("registerFeatures", NoFile, Some(setting')) \in obs'
       /\ registered' = registered =>
             \A e \in obs' : e.ev # "registerFeatures"]_vars

\* C38 witness: the features were registered, the setting was cleared
\* afterwards, and activate has just run again without registering.
C38_Witness ==
    /\ registered = 1 /\ extensionInitialized
    /\ setting = <<>>
    /\ Ev("statusBarItem.text", NoFile, LOADING) \in obs
    /\ \A e \in obs : e.ev # "registerFeatures"
====
